---- MODULE Spec2Model ----
(***************************************************************************)
(* Exact-rational linear-algebra engine (AdvancedAlgebraCalculator):       *)
(* the Fraction class and the MatrixOperations algorithms, modelled from   *)
(* src/AdvancedAlgebraCalculator/lib/matrix-operations.js.                 *)
(*                                                                         *)
(* JavaScript values are modelled as follows.                              *)
(*   - a number is an integer, or NaN (a reserved integer no bounded run   *)
(*     computes); every arithmetic helper below propagates NaN as          *)
(*     IEEE-754 does;                                                      *)
(*   - a Fraction object is the record [numerator, denominator];           *)
(*   - where the code holds "number or Fraction" in one place (the pivot   *)
(*     list of calculateDeterminant, solution vectors), a plain number v   *)
(*     is boxed as [value |-> v], and `instanceof Fraction` is the test    *)
(*     "numerator" \in DOMAIN x;                                           *)
(*   - a call that never returns (a loop that cannot leave) yields Hang.   *)
(*   - a formatted string is the sequence of its numerals: <<n>> is the    *)
(*     text "n" and <<n, d>> is the text "n/d".                            *)
(* The operators compute the result fields of each call; the step trace,   *)
(* which the algorithms append to and never read, is left out of them.     *)
(***************************************************************************)
EXTENDS Integers, Sequences, FiniteSets, TLC

VARIABLES
    precision,      \* MatrixOperations.precision
    useFractions,   \* MatrixOperations.useFractions
    formatType,     \* MatrixOperations.formatType
    pc,             \* which call has been made on the inputs
    args,           \* the caller's arguments
    ret             \* what the call produced

vars == <<precision, useFractions, formatType, pc, args, ret>>

config == <<precision, useFractions, formatType>>

(***************************************************************************)
(* Bounds of the model.                                                    *)
(***************************************************************************)
\* numerators and denominators of the Fraction operands are in -MaxNum..MaxNum
MaxNum == 4

\* entries of the inputs with at most four cells are the integers
\* -MaxEntry..MaxEntry; larger inputs draw from the narrower ranges of Entries
MaxEntry == 4

\* toFraction scales by 10^decimalPlaces.  The code's value is 10; 10^10 does
\* not fit the checker's 32-bit integers, so the same computation is run with
\* fewer places (the reduced fraction of an integer does not depend on it).
decimalPlaces == 4

(***************************************************************************)
(* JavaScript numbers.                                                     *)
(***************************************************************************)
NaN == -(2^30)

Hang == -(2^30) - 1

IsNaN(x) == x = NaN

JsAbs(x) == IF x = NaN THEN NaN ELSE IF x < 0 THEN -x ELSE x

JsNeg(x) == IF x = NaN THEN NaN ELSE -x

JsAdd(x, y) == IF x = NaN \/ y = NaN THEN NaN ELSE x + y

JsSub(x, y) == IF x = NaN \/ y = NaN THEN NaN ELSE x - y

JsMul(x, y) == IF x = NaN \/ y = NaN THEN NaN ELSE x * y

\* x / y for the divisions the code performs on integers: y divides x, or
\* x = y = 0 (0 / 0 is NaN).
JsDiv(x, y) == IF x = NaN \/ y = NaN \/ y = 0 THEN NaN ELSE x \div y

\* x % y for non-negative x (the code takes Math.abs first); x % 0 is NaN.
JsMod(x, y) == IF x = NaN \/ y = NaN \/ y = 0 THEN NaN ELSE x % y

(***************************************************************************)
(* JavaScript strings: a string is the sequence of its characters, and a   *)
(* string held where the code holds "number, string or Fraction" is boxed  *)
(* as [text |-> characters].                                               *)
(***************************************************************************)
Text(chars) == [text |-> chars]

\* typeof x === 'string'
IsText(x) == "text" \in DOMAIN x

DigitChars == <<"0", "1", "2", "3", "4", "5", "6", "7", "8", "9">>

IsDigitChar(c) == \E d \in 1..10 : DigitChars[d] = c

DigitValue(c) == (CHOOSE d \in 1..10 : DigitChars[d] = c) - 1

\* the decimal numeral of n >= 0
RECURSIVE Digits(_)
Digits(n) ==
    IF n < 10 THEN <<DigitChars[n + 1]>>
    ELSE Digits(n \div 10) \o <<DigitChars[(n % 10) + 1]>>

\* Number.prototype.toString for an integer or NaN
NumberToString(n) ==
    IF n = NaN THEN <<"N", "a", "N">>
    ELSE IF n < 0 THEN <<"-">> \o Digits(-n)
    ELSE Digits(n)

\* the number of digit characters of chars from position k on
RECURSIVE DigitRun(_, _)
DigitRun(chars, k) ==
    IF k <= Len(chars) /\ IsDigitChar(chars[k]) THEN 1 + DigitRun(chars, k + 1) ELSE 0

\* the value of the numeral chars[from..to]
RECURSIVE NumeralValue(_, _, _)
NumeralValue(chars, from, to) ==
    IF to < from THEN 0
    ELSE 10 * NumeralValue(chars, from, to - 1) + DigitValue(chars[to])

\* parseInt(string) for a string without white space and without a 0x
\* prefix: an optional sign, then the longest run of digits; NaN when that
\* run is empty; whatever follows the run is ignored
parseInt(chars) ==
    LET signed == Len(chars) >= 1 /\ chars[1] \in {"-", "+"}
        from == IF signed THEN 2 ELSE 1
        run == DigitRun(chars, from)
        magnitude == NumeralValue(chars, from, from + run - 1)
    IN  IF run = 0 THEN NaN
        ELSE IF signed /\ chars[1] = "-" THEN -magnitude ELSE magnitude

\* string.match(/^(-?\d+)\/(\d+)$/): the position of the slash, 0 when the
\* string does not match
MatchFraction(chars) ==
    LET from == IF Len(chars) >= 1 /\ chars[1] = "-" THEN 2 ELSE 1
        run == DigitRun(chars, from)
        slash == from + run
        tail == DigitRun(chars, slash + 1)
    IN  IF /\ run > 0
           /\ slash <= Len(chars)
           /\ chars[slash] = "/"
           /\ tail > 0
           /\ slash + tail = Len(chars)
        THEN slash
        ELSE 0

(***************************************************************************)
(* class Fraction                                                          *)
(***************************************************************************)
\* static gcd(a, b): while (b !== 0) { temp = b; b = a % b; a = temp }.
\* NaN !== 0 is true, and once a and b are both NaN the loop state repeats
\* for ever: the call does not return.
RECURSIVE gcd(_, _)
gcd(a, b) ==
    IF b = 0 THEN a
    ELSE IF a = NaN /\ b = NaN THEN Hang
    ELSE gcd(b, JsMod(a, b))

FractionKeepsSign(numerator, denominator) ==
    LET g == gcd(JsAbs(numerator), JsAbs(denominator))
    IN  IF g = Hang THEN [numerator |-> Hang, denominator |-> Hang]
        ELSE [numerator |-> JsDiv(numerator, g), denominator |-> JsDiv(denominator, g)]

\* new Fraction(numerator, denominator) with two numbers
Fraction(numerator, denominator) ==
    LET g == gcd(JsAbs(numerator), JsAbs(denominator))
        n == JsDiv(numerator, g)
        d == JsDiv(denominator, g)
    IN  IF g = Hang THEN [numerator |-> Hang, denominator |-> Hang]
        ELSE IF d # NaN /\ d < 0
             THEN [numerator |-> JsNeg(n), denominator |-> JsNeg(d)]
             ELSE [numerator |-> n, denominator |-> d]

\* `x instanceof Fraction` (a plain number v is boxed as [value |-> v])
IsFraction(x) == "numerator" \in DOMAIN x

Number(v) == [value |-> v]

\* new Fraction(number): denominator === undefined  =>  denominator = 1
FractionOf(number) == Fraction(number, 1)

\* new Fraction(string): "p/q" matching the pattern gives p and q by parseInt,
\* any other string gives parseInt(string) over 1
FractionFromString(chars) ==
    LET slash == MatchFraction(chars)
    IN  IF slash # 0
        THEN Fraction(parseInt(SubSeq(chars, 1, slash - 1)),
                      parseInt(SubSeq(chars, slash + 1, Len(chars))))
        ELSE Fraction(parseInt(chars), 1)

\* Fraction.toString(): "n" when the denominator is 1, "n/d" otherwise
FractionToString(this) ==
    IF this.denominator = 1 THEN NumberToString(this.numerator)
    ELSE NumberToString(this.numerator) \o <<"/">> \o NumberToString(this.denominator)

\* if (!(other instanceof Fraction)) other = new Fraction(other)
AsFraction(other) == IF IsFraction(other) THEN other ELSE FractionOf(other.value)

add(this, other) ==
    LET o == AsFraction(other)
    IN  Fraction(JsAdd(JsMul(this.numerator, o.denominator),
                       JsMul(o.numerator, this.denominator)),
                 JsMul(this.denominator, o.denominator))

subtractSwapped(this, other) ==
    LET o == AsFraction(other)
    IN  Fraction(JsSub(JsMul(o.numerator, this.denominator),
                       JsMul(this.numerator, o.denominator)),
                 JsMul(this.denominator, o.denominator))

subtract(this, other) ==
    LET o == AsFraction(other)
    IN  Fraction(JsSub(JsMul(this.numerator, o.denominator),
                       JsMul(o.numerator, this.denominator)),
                 JsMul(this.denominator, o.denominator))

multiplyNumeratorsOnly(this, other) ==
    LET o == AsFraction(other)
    IN  Fraction(JsMul(this.numerator, o.numerator), this.denominator)

multiply(this, other) ==
    LET o == AsFraction(other)
    IN  Fraction(JsMul(this.numerator, o.numerator),
                 JsMul(this.denominator, o.denominator))

divide(this, other) ==
    LET o == AsFraction(other)
    IN  Fraction(JsMul(this.numerator, o.denominator),
                 JsMul(this.denominator, o.numerator))

(***************************************************************************)
(* MatrixOperations: the engine instance                                   *)
(***************************************************************************)
\* constructor(): precision = 10, useFractions = true, formatType = 'rational'
InitEngine ==
    /\ precision = 10
    /\ useFractions = TRUE
    /\ formatType = "rational"

None == [none |-> TRUE]

(***************************************************************************)
(* MatrixOperations: scalar helpers                                        *)
(***************************************************************************)
\* a number with a fractional part, mantissa / 10^places with
\* 1 <= places <= decimalPlaces (0.5 is Decimal(5, 1))
Decimal(mantissa, places) == [mantissa |-> mantissa, places |-> places]

IsDecimal(x) == "mantissa" \in DOMAIN x

\* the number mantissa / 10^places as a JS number: an integer when the
\* division is exact, a Decimal otherwise
MakeNumber(mantissa, places) ==
    IF mantissa % (10^places) = 0 THEN Number(mantissa \div (10^places))
    ELSE Decimal(mantissa, places)

\* parseFloat(string) for a string of digits, signs, "." and "/": an
\* optional sign, digits, an optional "." with digits; NaN when there is no
\* digit at all; whatever follows is ignored
parseFloat(chars) ==
    LET signed == Len(chars) >= 1 /\ chars[1] \in {"-", "+"}
        from == IF signed THEN 2 ELSE 1
        intRun == DigitRun(chars, from)
        dot == from + intRun
        fracRun == IF dot <= Len(chars) /\ chars[dot] = "."
                   THEN DigitRun(chars, dot + 1) ELSE 0
        magnitude == NumeralValue(chars, from, dot - 1) * 10^fracRun
                     + NumeralValue(chars, dot + 1, dot + fracRun)
    IN  IF intRun = 0 /\ fracRun = 0 THEN Number(NaN)
        ELSE MakeNumber(IF signed /\ chars[1] = "-" THEN -magnitude ELSE magnitude, fracRun)

\* toFraction(num): a Fraction is returned as it is; a number becomes
\* new Fraction(Math.round(num * 10^decimalPlaces), 10^decimalPlaces)
\* (Math.round of an integer multiple is that multiple, of NaN it is NaN);
\* anything else, a string, goes to new Fraction(num).
toFraction(num) ==
    IF IsFraction(num) THEN num
    ELSE IF IsText(num) THEN FractionFromString(num.text)
    ELSE IF IsDecimal(num)
    THEN Fraction(num.mantissa * 10^(decimalPlaces - num.places), 10^decimalPlaces)
    ELSE Fraction(JsMul(num.value, 10^decimalPlaces), 10^decimalPlaces)

\* convertToAppropriateType(value) for a value of type number
convertToAppropriateType(value) ==
    IF useFractions THEN toFraction(Number(value)) ELSE Number(value)

\* convertToAppropriateType(value) for a value of any type: a string goes
\* through parseFloat first and reaches new Fraction(value) only when
\* parseFloat gives NaN; a number is converted when useFractions; anything
\* else (a Fraction) is returned as it is
convertToAppropriateTypeOf(value) ==
    IF IsText(value)
    THEN (IF parseFloat(value.text) = Number(NaN) THEN FractionFromString(value.text)
          ELSE IF useFractions THEN toFraction(parseFloat(value.text))
          ELSE parseFloat(value.text))
    ELSE IF IsFraction(value) THEN value
    ELSE IF useFractions THEN toFraction(value)
    ELSE value

\* isZero(value): numerator === 0 for a Fraction, Math.abs(value) < 1e-10 for
\* a number (false for NaN)
isZero(value) ==
    IF IsFraction(value) THEN value.numerator = 0
    ELSE value.value # NaN /\ value.value = 0

\* Math.abs(x.toFloat()) > Math.abs(y.toFloat()) for Fractions x, y: the
\* quotients are compared exactly, by cross-multiplication
AbsGreater(x, y) ==
    JsAbs(x.numerator) * JsAbs(y.denominator) > JsAbs(y.numerator) * JsAbs(x.denominator)

\* the number a string of signs, digits and slashes is read as where a number
\* is expected: 0 for the empty string, the value of an optionally signed
\* run of digits, NaN for anything else
StringToNumber(chars) ==
    IF Len(chars) = 0 THEN 0
    ELSE IF DigitRun(chars, IF chars[1] \in {"-", "+"} THEN 2 ELSE 1) > 0
            /\ DigitRun(chars, IF chars[1] \in {"-", "+"} THEN 2 ELSE 1)
                  = Len(chars) - (IF chars[1] \in {"-", "+"} THEN 1 ELSE 0)
    THEN parseInt(chars)
    ELSE NaN

\* the value a Fraction takes where a number is expected (x * y, -x, x -= y):
\* Number(x.toString()), which is the numerator for "n" and NaN for "n/d";
\* a string is read as a number
ToNumber(x) ==
    IF IsFraction(x)
    THEN (IF x.denominator = 1 THEN x.numerator ELSE NaN)
    ELSE IF IsText(x) THEN StringToNumber(x.text)
    ELSE x.value

\* matrix.map(row => row.map(value => this.convertToAppropriateType(value)))
ConvertMatrix(matrix) ==
    [i \in 1..Len(matrix) |->
        [j \in 1..Len(matrix[i]) |-> convertToAppropriateType(matrix[i][j])]]

\* [m[i], m[p]] = [m[p], m[i]]
SwapRows(m, i, p) == [m EXCEPT ![i] = m[p], ![p] = m[i]]

\* no pivot search: the diagonal entry is taken as it is
FindPivotRowNone(m, rows, col, j, pivotRow) == pivotRow

\* pivot search: for (j = i; j < rows; j++) if (|m[j][col]| > |m[pivotRow][col]|) pivotRow = j
RECURSIVE FindPivotRow(_, _, _, _, _)
FindPivotRow(m, rows, col, j, pivotRow) ==
    IF j > rows THEN pivotRow
    ELSE FindPivotRow(m, rows, col, j + 1,
                      IF AbsGreater(m[j][col], m[pivotRow][col]) THEN j ELSE pivotRow)

\* for (k = from; k < width; k++) row[k] = row[k].subtract(factor.multiply(pivotRow[k]))
RowMinus(row, factor, pivotRow, from) ==
    [k \in 1..Len(row) |->
        IF k < from THEN row[k] ELSE subtract(row[k], multiply(factor, pivotRow[k]))]

\* for (j = i + 1; j < rows; j++) { factor = m[j][i].divide(pivot); row j -= factor * row i }
EliminateBelow(m, i) ==
    [j \in 1..Len(m) |->
        IF j <= i THEN m[j]
        ELSE RowMinus(m[j], divide(m[j][i], m[i][i]), m[i], i)]

(***************************************************************************)
(* calculateDeterminant                                                    *)
(***************************************************************************)
\* the product loop over the recorded values: -1 (a number) for each row swap
\* and each pivot (a Fraction):
\*   val instanceof Fraction:  determinant = (determinant instanceof Fraction
\*        ? determinant : new Fraction(determinant)).multiply(val)
\*   otherwise:                determinant *= val
\* the product of the pivots alone, the row swaps forgotten
RECURSIVE DeterminantProductNoSign(_, _, _)
DeterminantProductNoSign(det, k, determinant) ==
    IF k > Len(det) THEN determinant
    ELSE DeterminantProductNoSign(det, k + 1,
            IF IsFraction(det[k]) THEN multiply(AsFraction(determinant), det[k])
            ELSE determinant)

RECURSIVE DeterminantProduct(_, _, _)
DeterminantProduct(det, k, determinant) ==
    IF k > Len(det) THEN determinant
    ELSE IF IsFraction(determinant) /\ determinant.numerator = Hang THEN determinant
    ELSE IF IsFraction(det[k])
         THEN LET d == AsFraction(determinant)
              IN  DeterminantProduct(det, k + 1,
                     IF d.numerator = Hang THEN d ELSE multiply(d, det[k]))
         ELSE DeterminantProduct(det, k + 1,
                     Number(JsMul(ToNumber(determinant), det[k].value)))

\* the elimination loop for (i = 0; i < n; i++): m is processedMatrix, det the
\* list of recorded values
RECURSIVE DeterminantLoop(_, _, _)
DeterminantLoop(m, i, det) ==
    IF i > Len(m) THEN [result |-> DeterminantProduct(det, 1, Number(1))]
    ELSE LET pivotRow == FindPivotRow(m, Len(m), i, i, i)
             swapped == IF pivotRow # i THEN SwapRows(m, i, pivotRow) ELSE m
             det1 == IF pivotRow # i THEN Append(det, Number(-1)) ELSE det
             pivot == swapped[i][i]
         IN  IF isZero(pivot) THEN [result |-> Number(0)]
             ELSE DeterminantLoop(EliminateBelow(swapped, i), i + 1, Append(det1, pivot))

\* calculateDeterminant(matrix): an error for a non-square matrix, otherwise
\* the record { result }
calculateDeterminant(matrix) ==
    IF Len(matrix) = 0 THEN [error |-> "empty"]
    ELSE IF Len(matrix[1]) = 0 THEN [error |-> "invalid"]
    ELSE IF Len(matrix) # Len(matrix[1]) THEN [error |-> "not square"]
    ELSE DeterminantLoop(ConvertMatrix(matrix), 1, <<>>)

\* matrix.map(row => row.map(value => this.convertToAppropriateType(value)))
\* on entries that are numbers, strings or Fractions
ConvertMatrixOf(matrix) ==
    [i \in 1..Len(matrix) |->
        [j \in 1..Len(matrix[i]) |-> convertToAppropriateTypeOf(matrix[i][j])]]

\* calculateDeterminant(matrix) on entries that are numbers, strings or
\* Fractions
calculateDeterminantOf(matrix) ==
    IF Len(matrix) = 0 THEN [error |-> "empty"]
    ELSE IF Len(matrix[1]) = 0 THEN [error |-> "invalid"]
    ELSE IF Len(matrix) # Len(matrix[1]) THEN [error |-> "not square"]
    ELSE DeterminantLoop(ConvertMatrixOf(matrix), 1, <<>>)

\* a call that does not return
Hung == [hang |-> "Fraction.gcd"]

IsHung(x) == "hang" \in DOMAIN x

\* a Fraction whose constructor did not return
FractionHangs(x) == IsFraction(x) /\ x.numerator = Hang

(***************************************************************************)
(* formatNumber                                                            *)
(***************************************************************************)
\* formatNumber(num, formatType).  The text "n" is <<n>>, the text "n/d" is
\* <<n, d>>.  A conversion that does not return makes the text <<Hang>>.
\*   'integer':  Math.round(num).toString()
\*   'rational': a number is first converted by toFraction when useFractions;
\*               a Fraction prints as numerator or numerator/denominator
\*   otherwise:  num.toString()
formatNumber(num, format) ==
    IF format = "integer" THEN <<ToNumber(num)>>
    ELSE IF format = "rational"
    THEN LET f == IF useFractions /\ ~IsFraction(num) THEN toFraction(num) ELSE num
         IN  IF IsFraction(f)
             THEN (IF f.numerator = Hang THEN <<Hang>>
                   ELSE IF f.denominator = 1 THEN <<f.numerator>>
                   ELSE <<f.numerator, f.denominator>>)
             ELSE <<f.value>>
    ELSE IF IsFraction(num)
         THEN (IF num.denominator = 1 THEN <<num.numerator>>
               ELSE <<num.numerator, num.denominator>>)
         ELSE <<num.value>>

\* vec.map(value => this.formatNumber(value, this.getFormatType()))
formatVector(vec) == [i \in 1..Len(vec) |-> formatNumber(vec[i], formatType)]

\* some formatted entry was never produced: the call does not return
VectorHangs(texts) == \E i \in 1..Len(texts) : texts[i] = <<Hang>>

(***************************************************************************)
(* calculateCharacteristicPolynomial                                       *)
(***************************************************************************)
\* generateCombinations(arr, k): backtrack(start, combo) pushes a copy of
\* combo when it has k elements, and otherwise extends it with arr[i] for
\* i = start, start + 1, ... in turn
RECURSIVE backtrack(_, _, _, _)
RECURSIVE BacktrackFrom(_, _, _, _)
\* the recursive call made with start = i, so that an item can be taken again
BacktrackFromSameIndex(arr, k, i, combo) ==
    IF i > Len(arr) THEN <<>>
    ELSE backtrack(arr, k, i, Append(combo, arr[i])) \o BacktrackFrom(arr, k, i + 1, combo)

backtrack(arr, k, start, combo) ==
    IF Len(combo) = k THEN <<combo>>
    ELSE BacktrackFrom(arr, k, start, combo)

BacktrackFrom(arr, k, i, combo) ==
    IF i > Len(arr) THEN <<>>
    ELSE backtrack(arr, k, i + 1, Append(combo, arr[i])) \o BacktrackFrom(arr, k, i + 1, combo)

generateCombinations(arr, k) == backtrack(arr, k, 1, <<>>)

\* extractPrincipalMinor(matrix, indices)
extractPrincipalMinor(matrix, indices) ==
    [i \in 1..Len(indices) |->
        [j \in 1..Len(indices) |-> matrix[indices[i]][indices[j]]]]

\* sum += result, where sum is a number or a string and result is a number or
\* a Fraction.  A Fraction has toString and no valueOf, so `+` takes it as
\* the string of toString and concatenates; a string plus a number
\* concatenates as well; two numbers are added.
PlusAssign(sum, result) ==
    IF IsFraction(result)
    THEN Text((IF IsText(sum) THEN sum.text ELSE NumberToString(sum.value))
              \o FractionToString(result))
    ELSE IF IsText(sum) THEN Text(sum.text \o NumberToString(result.value))
    ELSE Number(JsAdd(sum.value, result.value))

\* for (const combo of combinations) { minor = extractPrincipalMinor(matrix, combo);
\*     det = calculateDeterminant(minor); sum += det.result }
\* The minor is square and not empty and its entries are converted already,
\* so calculateDeterminant goes straight to its elimination loop.
RECURSIVE MinorsLoop(_, _, _, _)
AddMinor(matrix, combinations, c, sum, result) ==
    IF FractionHangs(result) THEN Hung
    ELSE MinorsLoop(matrix, combinations, c + 1, PlusAssign(sum, result))

MinorsLoop(matrix, combinations, c, sum) ==
    IF c > Len(combinations) THEN sum
    ELSE AddMinor(matrix, combinations, c, sum,
            DeterminantLoop(extractPrincipalMinor(matrix, combinations[c]), 1, <<>>).result)

\* calculatePrincipalMinorsSum(matrix, k): 1 for k = 0, 0 for k > n
calculatePrincipalMinorsSum(matrix, k) ==
    IF k = 0 THEN Number(1)
    ELSE IF k > Len(matrix) THEN Number(0)
    ELSE MinorsLoop(matrix, generateCombinations([i \in 1..Len(matrix) |-> i], k),
                    1, Number(0))

\* coefficients.map(coeff => this.formatNumber(coeff, currentFormat)); the
\* call does not return when a sum was never produced or a text never built
FormatCoefficients(coefficients) ==
    IF \E k \in 1..Len(coefficients) : IsHung(coefficients[k]) THEN Hung
    ELSE LET texts == formatVector(coefficients)
         IN  IF VectorHangs(texts) THEN Hung ELSE [coefficients |-> texts]

\* the loop for (k = 0; k <= n; k++) coefficients.push(calculatePrincipalMinorsSum(m, k))
CharacteristicCoefficients(processedMatrix) ==
    [k \in 1..(Len(processedMatrix) + 1) |->
        calculatePrincipalMinorsSum(processedMatrix, k - 1)]

\* calculateCharacteristicPolynomial(matrix)
calculateCharacteristicPolynomial(matrix) ==
    IF Len(matrix) = 0 THEN [error |-> "empty"]
    ELSE IF Len(matrix[1]) = 0 THEN [error |-> "invalid"]
    ELSE IF Len(matrix) # Len(matrix[1]) THEN [error |-> "not square"]
    ELSE FormatCoefficients(CharacteristicCoefficients(ConvertMatrix(matrix)))

(***************************************************************************)
(* calculateInverse                                                        *)
(***************************************************************************)
\* row i of the augmented matrix [A|I], every entry converted
AugmentedRow(matrix, i) ==
    LET n == Len(matrix)
    IN  [j \in 1..(2 * n) |->
            IF j <= n THEN convertToAppropriateType(matrix[i][j])
            ELSE convertToAppropriateType(IF j - n = i THEN 1 ELSE 0)]

\* the pivot row left as it is, not divided by the pivot
DivideRowNoOp(row, pivot, from) == row

\* for (j = 0; j < width; j++) row[j] = row[j].divide(pivot), from column `from`
DivideRow(row, pivot, from) ==
    [j \in 1..Len(row) |-> IF j < from THEN row[j] ELSE divide(row[j], pivot)]

\* elimination below the pivot row only
EliminateOthersBelowOnly(m, i, col, from, skipZero) ==
    [j \in 1..Len(m) |->
        IF j <= i \/ (skipZero /\ isZero(m[j][col])) THEN m[j]
        ELSE [k \in 1..Len(m[j]) |->
                IF k < from THEN m[j][k]
                ELSE subtract(m[j][k], multiply(m[j][col], m[i][k]))]]

\* for (j = 0; j < rows; j++) if (j !== i) { factor = m[j][col];
\*     for (k = from; k < width; k++) m[j][k] = m[j][k].subtract(factor.multiply(m[i][k])) }
\* skipZero: the rows whose factor isZero are left alone (reduceToRowEchelon)
EliminateOthers(m, i, col, from, skipZero) ==
    [j \in 1..Len(m) |->
        IF j = i \/ (skipZero /\ isZero(m[j][col])) THEN m[j]
        ELSE RowMinus(m[j], m[j][col], m[i], from)]

\* the Gauss-Jordan loop for (i = 0; i < n; i++) on the augmented matrix
RECURSIVE InverseLoop(_, _)
InverseLoop(aug, i) ==
    IF i > Len(aug) THEN [isInvertible |-> TRUE, augMatrix |-> aug]
    ELSE LET pivotRow == FindPivotRow(aug, Len(aug), i, i, i)
             swapped == IF pivotRow # i THEN SwapRows(aug, i, pivotRow) ELSE aug
             pivot == swapped[i][i]
         IN  IF isZero(pivot) THEN [error |-> "not invertible"]
             ELSE LET normalized == [swapped EXCEPT ![i] = DivideRow(swapped[i], pivot, 1)]
                  IN  InverseLoop(EliminateOthers(normalized, i, i, 1, FALSE), i + 1)

\* calculateInverse(matrix): an error, or { isInvertible, inverse } with the
\* right half of the augmented matrix formatted entry by entry
calculateInverse(matrix) ==
    IF Len(matrix) = 0 THEN [error |-> "empty"]
    ELSE IF Len(matrix[1]) = 0 THEN [error |-> "invalid"]
    ELSE IF Len(matrix) # Len(matrix[1]) THEN [error |-> "not square"]
    ELSE LET n == Len(matrix)
             done == InverseLoop([i \in 1..n |-> AugmentedRow(matrix, i)], 1)
         IN  IF "error" \in DOMAIN done THEN done
             ELSE [isInvertible |-> TRUE,
                   inverse |-> [i \in 1..n |->
                       formatVector([j \in 1..n |-> done.augMatrix[i][n + j]])]]

(***************************************************************************)
(* solveEquations and its helpers                                          *)
(***************************************************************************)
Min(a, b) == IF a < b THEN a ELSE b

\* round(num, precision): Math.round(num * 10^precision) / 10^precision.  A
\* Fraction is coerced to a number first; an integer comes back unchanged and
\* NaN stays NaN.
round(num, digits) ==
    Number(JsDiv(JsMul(ToNumber(num), 10^digits), 10^digits))

\* gaussianElimination: for (i = 0; i < Math.min(m, n); i++) pivot search,
\* swap, `continue` on a zero pivot, elimination below
RECURSIVE GaussLoop(_, _)
GaussLoop(result, i) ==
    IF i > Min(Len(result), Len(result[1])) THEN result
    ELSE LET pivotRow == FindPivotRow(result, Len(result), i, i, i)
             swapped == IF pivotRow # i THEN SwapRows(result, i, pivotRow) ELSE result
         IN  IF isZero(swapped[i][i]) THEN GaussLoop(swapped, i + 1)
             ELSE GaussLoop(EliminateBelow(swapped, i), i + 1)

gaussianElimination(matrix) == GaussLoop(matrix, 1)

\* while (pivotRow < m && isZero(result[pivotRow][pivotCol])) pivotRow++
RECURSIVE FirstNonZeroRow(_, _, _)
FirstNonZeroRow(result, pivotRow, pivotCol) ==
    IF pivotRow <= Len(result) /\ isZero(result[pivotRow][pivotCol])
    THEN FirstNonZeroRow(result, pivotRow + 1, pivotCol)
    ELSE pivotRow

\* reduceToRowEchelon: the loop over rows i with the moving pivotCol
RECURSIVE RowEchelonLoop(_, _, _)
RowEchelonLoop(result, i, pivotCol) ==
    IF i > Len(result) \/ pivotCol > Len(result[1]) THEN result
    ELSE LET pivotRow == FirstNonZeroRow(result, i, pivotCol)
         IN  IF pivotRow > Len(result) THEN RowEchelonLoop(result, i, pivotCol + 1)
             ELSE LET swapped == SwapRows(result, i, pivotRow)
                      normalized == [swapped EXCEPT ![i] =
                                        DivideRow(swapped[i], swapped[i][pivotCol], pivotCol)]
                  IN  RowEchelonLoop(EliminateOthers(normalized, i, pivotCol, pivotCol, TRUE),
                                     i + 1, pivotCol + 1)

reduceToRowEchelon(matrix) == RowEchelonLoop(matrix, 1, 1)

\* calculateRank: the number of rows with a non-zero entry
calculateRank(matrix) ==
    Cardinality({i \in 1..Len(matrix) :
                    \E j \in 1..Len(matrix[i]) : ~isZero(matrix[i][j])})

\* row.slice(0, -1)
DropLast(row) == SubSeq(row, 1, Len(row) - 1)

\* row.findIndex(val => !this.isZero(val)), 1-based; 0 when there is none
RECURSIVE FindIndexFrom(_, _)
FindIndexFrom(row, j) ==
    IF j > Len(row) THEN 0
    ELSE IF ~isZero(row[j]) THEN j
    ELSE FindIndexFrom(row, j + 1)

findIndexNonZero(row) == FindIndexFrom(row, 1)

\* extractSolution, inner loop: for (j = pivotIndex + 1; j < n; j++)
\*     if (!isZero(solution[j])) sum -= row[j] * solution[j]
RECURSIVE BackSubstitute(_, _, _, _, _)
BackSubstitute(row, solution, j, n, sum) ==
    IF j > n THEN sum
    ELSE IF isZero(solution[j]) THEN BackSubstitute(row, solution, j + 1, n, sum)
    ELSE IF IsFraction(sum) /\ IsFraction(row[j]) /\ IsFraction(solution[j])
         THEN BackSubstitute(row, solution, j + 1, n,
                             subtract(sum, multiply(row[j], solution[j])))
         ELSE LET diff == Number(JsSub(ToNumber(sum),
                                       JsMul(ToNumber(row[j]), ToNumber(solution[j]))))
              IN  BackSubstitute(row, solution, j + 1, n,
                                 IF useFractions THEN toFraction(diff) ELSE diff)

\* extractSolution, outer loop: for (i = rows - 1; i >= 0; i--)
RECURSIVE ExtractLoop(_, _, _)
ExtractLoop(rref, i, solution) ==
    IF i < 1 THEN solution
    ELSE LET n == Len(rref[1]) - 1
             pivotIndex == findIndexNonZero(rref[i])
             sum == BackSubstitute(rref[i], solution, pivotIndex + 1, n, rref[i][n + 1])
         IN  IF pivotIndex = 0 THEN ExtractLoop(rref, i - 1, solution)
             ELSE IF pivotIndex > Len(solution)
                  THEN ExtractLoop(rref, i - 1, Append(solution, sum))
                  ELSE ExtractLoop(rref, i - 1, [solution EXCEPT ![pivotIndex] = sum])

extractSolution(rref) ==
    ExtractLoop(rref, Len(rref), [j \in 1..(Len(rref[1]) - 1) |-> Number(0)])

\* findParticularSolutionAndBasis
findParticularSolutionAndBasis(rref) ==
    LET m == Len(rref)
        n == Len(rref[1]) - 1
        pivotIndex == [i \in 1..m |-> findIndexNonZero(rref[i])]
        \* the rows that own a pivot among the n coefficient columns
        pivotRows == {i \in 1..m : pivotIndex[i] # 0 /\ pivotIndex[i] <= n}
        pivotColumns == {pivotIndex[i] : i \in pivotRows}
        \* the last row whose pivot is column j (a later assignment overwrites)
        lastRow(j) == CHOOSE i \in pivotRows :
                          /\ pivotIndex[i] = j
                          /\ \A k \in pivotRows : pivotIndex[k] = j => k <= i
        particularSolution ==
            [j \in 1..n |-> IF j \in pivotColumns THEN rref[lastRow(j)][n + 1] ELSE Number(0)]
        basis(freeVar) ==
            [j \in 1..n |->
                IF j = freeVar THEN Number(1)
                ELSE IF j \in pivotColumns
                     THEN Number(JsNeg(ToNumber(rref[lastRow(j)][freeVar])))
                     ELSE Number(0)]
        roundAll(vec) == [j \in 1..Len(vec) |-> round(vec[j], 6)]
        freeVariables == SelectSeq([j \in 1..n |-> j], LAMBDA j : j \notin pivotColumns)
    IN  [particularSolution |-> roundAll(particularSolution),
         basisSolutions |-> [k \in 1..Len(freeVariables) |-> roundAll(basis(freeVariables[k]))]]

\* the tail of solveEquations: the formatted result object, or no return at
\* all when a formatNumber call stays in Fraction.gcd
SolveResult(type, rankA, rankAugmented, solution, particularSolution, basis) ==
    IF \/ (type = "unique" /\ VectorHangs(solution))
       \/ (type = "infinite" /\ VectorHangs(particularSolution))
       \/ \E k \in 1..Len(basis) : VectorHangs(basis[k])
    THEN [hang |-> "Fraction.gcd"]
    ELSE [type |-> type, rankA |-> rankA, rankAugmented |-> rankAugmented,
          solution |-> solution, particularSolution |-> particularSolution,
          basis |-> basis]

\* the 'infinite' branch: particular solution and basis, formatted
SolveInfinite(type, rankA, rankAugmented, found) ==
    SolveResult(type, rankA, rankAugmented, None,
                formatVector(found.particularSolution),
                [k \in 1..Len(found.basisSolutions) |-> formatVector(found.basisSolutions[k])])

\* the three-way branch of solveEquations on the ranks
SolveByType(type, rankA, rankAugmented, rref) ==
    IF type = "unique"
    THEN SolveResult(type, rankA, rankAugmented,
                     formatVector(extractSolution(rref)), None, <<>>)
    ELSE IF type = "infinite"
    THEN SolveInfinite(type, rankA, rankAugmented, findParticularSolutionAndBasis(rref))
    ELSE SolveResult(type, rankA, rankAugmented, None, None, <<>>)

\* rankA < rankAugmented: no solution; rankA = rankAugmented = n: unique;
\* otherwise infinitely many
SolveClassify(n, rankA, rankAugmented, rref) ==
    SolveByType(IF rankA < rankAugmented THEN "inconsistent"
                ELSE IF rankA = rankAugmented /\ rankA = n THEN "unique"
                ELSE "infinite",
                rankA, rankAugmented, rref)

SolveFromRref(n, rref) ==
    SolveClassify(n, calculateRank([i \in 1..Len(rref) |-> DropLast(rref[i])]),
                  calculateRank(rref), rref)

\* the augmented matrix [A|b] of the converted inputs
AugmentedSystem(matrix, vector) ==
    [i \in 1..Len(matrix) |->
        Append([j \in 1..Len(matrix[i]) |-> convertToAppropriateType(matrix[i][j])],
               convertToAppropriateType(vector[i]))]

\* solveEquations(matrix, vector)
solveEquations(matrix, vector) ==
    IF Len(matrix) = 0 THEN [error |-> "empty matrix"]
    ELSE IF Len(vector) = 0 THEN [error |-> "empty vector"]
    ELSE IF Len(matrix[1]) = 0 THEN [error |-> "invalid"]
    ELSE IF Len(matrix) # Len(vector) THEN [error |-> "length mismatch"]
    ELSE SolveFromRref(Len(matrix[1]),
            reduceToRowEchelon(gaussianElimination(AugmentedSystem(matrix, vector))))

(***************************************************************************)
(* Vector helpers and schmidtOrthonormalization                            *)
(***************************************************************************)
\* a number that is the quotient of two integers and not an integer itself:
\* dividend / divisor with divisor > 0
Ratio(dividend, divisor) == [dividend |-> dividend, divisor |-> divisor]

IsRatio(x) == "dividend" \in DOMAIN x

\* Math.round(a / b) for b > 0: the nearest integer, a half rounded up
RoundRatio(a, b) == (2 * a + b) \div (2 * b)

\* dotProduct(vector1, vector2): product starts as the number 0 and becomes a
\* Fraction with the first pair of Fractions
RECURSIVE DotProductLoop(_, _, _, _)
DotProductLoop(vector1, vector2, i, product) ==
    IF i > Len(vector1) THEN product
    ELSE IF IsFraction(vector1[i]) /\ IsFraction(vector2[i])
    THEN DotProductLoop(vector1, vector2, i + 1,
            IF IsFraction(product) THEN add(product, multiply(vector1[i], vector2[i]))
            ELSE multiply(vector1[i], vector2[i]))
    ELSE DotProductLoop(vector1, vector2, i + 1,
            Number(JsAdd(ToNumber(product), JsMul(ToNumber(vector1[i]), ToNumber(vector2[i])))))

dotProduct(vector1, vector2) ==
    IF Len(vector1) # Len(vector2) THEN [error |-> "dimension mismatch"]
    ELSE DotProductLoop(vector1, vector2, 1, Number(0))

\* dot / normSq on two values that are Fractions or numbers: each operand is
\* read as a number (NaN for a Fraction "n/d"), and 0 / 0 is NaN.  A division
\* of a non-zero number by zero does not occur: normSq is zero only for the
\* zero vector, whose dot product with anything is zero.
Quotient(dot, normSq) ==
    IF ToNumber(dot) = NaN \/ ToNumber(normSq) = NaN \/ ToNumber(normSq) = 0
    THEN Number(NaN)
    ELSE IF ToNumber(dot) % ToNumber(normSq) = 0
    THEN Number(ToNumber(dot) \div ToNumber(normSq))
    ELSE Ratio(ToNumber(dot), ToNumber(normSq))

\* component * scalar for a scalar that is not a Fraction, then toFraction
\* when useFractions: Math.round(result * 10^decimalPlaces) over
\* 10^decimalPlaces
ScaleComponent(component, scalar) ==
    IF ToNumber(component) = NaN \/ (~IsRatio(scalar) /\ scalar.value = NaN)
    THEN (IF useFractions THEN toFraction(Number(NaN)) ELSE Number(NaN))
    ELSE IF IsRatio(scalar)
    THEN (IF useFractions
          THEN Fraction(RoundRatio(ToNumber(component) * scalar.dividend * 10^decimalPlaces,
                                   scalar.divisor),
                        10^decimalPlaces)
          ELSE Ratio(ToNumber(component) * scalar.dividend, scalar.divisor))
    ELSE IF useFractions THEN toFraction(Number(ToNumber(component) * scalar.value))
    ELSE Number(ToNumber(component) * scalar.value)

\* scalarMultiply(vector, scalar)
scalarMultiply(vector, scalar) ==
    [k \in 1..Len(vector) |->
        IF IsFraction(vector[k]) /\ IsFraction(scalar) THEN multiply(vector[k], scalar)
        ELSE ScaleComponent(vector[k], scalar)]

\* subtractVectors(vector1, vector2)
subtractVectors(vector1, vector2) ==
    [k \in 1..Len(vector1) |->
        IF IsFraction(vector1[k]) /\ IsFraction(vector2[k])
        THEN subtract(vector1[k], vector2[k])
        ELSE IF useFractions
        THEN toFraction(Number(JsSub(ToNumber(vector1[k]), ToNumber(vector2[k]))))
        ELSE Number(JsSub(ToNumber(vector1[k]), ToNumber(vector2[k])))]

\* isZero(vectorNorm(u)) for a vector of Fractions: Math.sqrt of the sum of the
\* squares is below 1e-10 only when every component is zero, a non-zero
\* component being at least 10^-decimalPlaces in absolute value
NormIsZero(u) == \A k \in 1..Len(u) : u[k].numerator = 0

\* some component survives a multiplication by a number only as NaN
HasFractionalComponent(u) == \E k \in 1..Len(u) : ToNumber(u[k]) = NaN

\* u[k].numerator squared, summed: dot.toFloat() for a vector of integers
RECURSIVE SumOfSquares(_, _)
SumOfSquares(u, k) ==
    IF k = 0 THEN 0 ELSE u[k].numerator * u[k].numerator + SumOfSquares(u, k - 1)

\* scalarMultiply(u, 1 / norm) for a vector u of integer Fractions.  The
\* norm is a square root; the entry component / sqrt(normSquared), rounded to
\* 10 decimals by toFraction, is kept as the pair it is computed from.
UnitVector(u) ==
    [k \in 1..Len(u) |-> [component |-> u[k].numerator, normSquared |-> SumOfSquares(u, Len(u))]]

VectorOfFractionsHangs(vector) == \E k \in 1..Len(vector) : FractionHangs(vector[k])

\* formatVectors(orthogonal) and the return object
SchmidtResult(orthogonal, orthonormal) ==
    [orthogonal |-> [k \in 1..Len(orthogonal) |-> formatVector(orthogonal[k])],
     orthonormal |-> orthonormal]

RECURSIVE SchmidtLoop(_, _, _, _)
RECURSIVE SchmidtProject(_, _, _, _, _, _)

\* the tail of one iteration: orthogonal.push(u), then the unit vector unless
\* the norm is zero.  A component "n/d" times 1 / norm is NaN, and
\* toFraction(NaN) does not return.
SchmidtNormalize(vectors, i, u, orthogonal, orthonormal) ==
    IF NormIsZero(u) THEN SchmidtLoop(vectors, i + 1, Append(orthogonal, u), orthonormal)
    ELSE IF HasFractionalComponent(u) /\ useFractions THEN Hung
    ELSE SchmidtLoop(vectors, i + 1, Append(orthogonal, u), Append(orthonormal, UnitVector(u)))

\* u = this.subtractVectors(u, proj)
SchmidtSubtract(vectors, i, j, u, proj, orthogonal, orthonormal) ==
    IF VectorOfFractionsHangs(proj) THEN Hung
    ELSE SchmidtProject(vectors, i, j + 1, subtractVectors(u, proj), orthogonal, orthonormal)

\* for (j = 0; j < i; j++): proj = scalarMultiply(orthogonal[j], dot / normSq)
SchmidtProject(vectors, i, j, u, orthogonal, orthonormal) ==
    IF j >= i THEN SchmidtNormalize(vectors, i, u, orthogonal, orthonormal)
    ELSE SchmidtSubtract(vectors, i, j, u,
            scalarMultiply(orthogonal[j],
                           Quotient(dotProduct(vectors[i], orthogonal[j]),
                                    dotProduct(orthogonal[j], orthogonal[j]))),
            orthogonal, orthonormal)

\* for (i = 0; i < n; i++)
SchmidtLoop(vectors, i, orthogonal, orthonormal) ==
    IF i > Len(vectors) THEN SchmidtResult(orthogonal, orthonormal)
    ELSE SchmidtProject(vectors, i, 1, vectors[i], orthogonal, orthonormal)

\* schmidtOrthonormalization(vectors): an error, the object { orthogonal,
\* orthonormal } with the orthogonal vectors formatted, or no return
schmidtOrthonormalization(vectors) ==
    IF Len(vectors) = 0 THEN [error |-> "empty"]
    ELSE IF Len(vectors[1]) = 0 THEN [error |-> "invalid"]
    ELSE SchmidtLoop(ConvertMatrix(vectors), 1, <<>>, <<>>)

(***************************************************************************)
(* multiplyMatrices                                                        *)
(***************************************************************************)
\* the product of the inner loop read from the first column of the second
\* matrix whatever j is
ProductTermFirstColumn(m1, m2, i, j, k) == multiply(m1[i][k], m2[k][1])

\* product = processedMatrix1[i][k].multiply(processedMatrix2[k][j]) when both
\* are Fractions, else the product of the numbers (through toFraction when
\* useFractions)
ProductTerm(m1, m2, i, j, k) ==
    IF IsFraction(m1[i][k]) /\ IsFraction(m2[k][j])
    THEN multiply(m1[i][k], m2[k][j])
    ELSE IF useFractions
    THEN toFraction(Number(JsMul(ToNumber(m1[i][k]), ToNumber(m2[k][j]))))
    ELSE Number(JsMul(ToNumber(m1[i][k]), ToNumber(m2[k][j])))

\* result[i][j] = result[i][j].add(product) for two Fractions, else +=
Accumulate(entry, product) ==
    IF IsFraction(entry) /\ IsFraction(product) THEN add(entry, product)
    ELSE Number(JsAdd(ToNumber(entry), ToNumber(product)))

\* for (k = 0; k < cols1; k++) of one result entry
RECURSIVE MultiplyLoop(_, _, _, _, _, _)
MultiplyLoop(m1, m2, i, j, k, entry) ==
    IF k > Len(m1[1]) THEN entry
    ELSE MultiplyLoop(m1, m2, i, j, k + 1, Accumulate(entry, ProductTerm(m1, m2, i, j, k)))

\* multiplyMatrices(matrix1, matrix2): an error, or { result, steps } with the
\* result formatted entry by entry and the two converted operands as steps
multiplyMatrices(matrix1, matrix2) ==
    IF Len(matrix1) = 0 THEN [error |-> "first matrix empty"]
    ELSE IF Len(matrix2) = 0 THEN [error |-> "second matrix empty"]
    ELSE IF Len(matrix1[1]) = 0 THEN [error |-> "first matrix invalid"]
    ELSE IF Len(matrix2[1]) = 0 THEN [error |-> "second matrix invalid"]
    ELSE IF Len(matrix1[1]) # Len(matrix2) THEN [error |-> "columns differ from rows"]
    ELSE [result |->
            [i \in 1..Len(matrix1) |->
                formatVector([j \in 1..Len(matrix2[1]) |->
                    MultiplyLoop(ConvertMatrix(matrix1), ConvertMatrix(matrix2), i, j, 1,
                                 IF useFractions THEN FractionOf(0) ELSE Number(0))])],
          steps |-> <<[matrix |-> ConvertMatrix(matrix1), description |-> "A"],
                      [matrix |-> ConvertMatrix(matrix2), description |-> "B"]>>]

(***************************************************************************)
(* The legacy engine, src/lib/matrix-operations-old.js: class Fraction.    *)
(* Its definitions carry the suffix Old.                                   *)
(***************************************************************************)
\* parseInt(x, 10) || fallback for a number x: NaN and 0 give the fallback
ParseIntOr(x, fallback) == IF x = NaN \/ x = 0 THEN fallback ELSE x

\* static gcd(a, b): Math.abs of both, then the same loop as the current engine
gcdOld(a, b) == gcd(JsAbs(a), JsAbs(b))

\* reduce(): both fields divided by the gcd, with Math.floor
reduceOld(this) ==
    [numerator |-> this.numerator \div gcdOld(this.numerator, this.denominator),
     denominator |-> this.denominator \div gcdOld(this.numerator, this.denominator)]

\* new Fraction(numerator, denominator = 1) with two numbers: the fields are
\* parseInt(numerator, 10) || 0 and parseInt(denominator, 10) || 1, the sign is
\* moved to the numerator, then reduce()
FractionOld(numerator, denominator) ==
    LET n == ParseIntOr(numerator, 0)
        d == ParseIntOr(denominator, 1)
    IN  reduceOld(IF d < 0 THEN [numerator |-> -n, denominator |-> -d]
                  ELSE [numerator |-> n, denominator |-> d])

\* Fraction.toString(forceFraction = false)
toStringOld(this) ==
    IF this.denominator = 1 THEN NumberToString(this.numerator)
    ELSE IF this.numerator < 0
    THEN <<"-">> \o NumberToString(-this.numerator) \o <<"/">> \o NumberToString(this.denominator)
    ELSE NumberToString(this.numerator) \o <<"/">> \o NumberToString(this.denominator)

\* the chars of a string up to its first "/" (parts[0] of split('/'))
RECURSIVE SlashCount(_, _)
SlashCount(chars, k) ==
    IF k > Len(chars) THEN 0
    ELSE (IF chars[k] = "/" THEN 1 ELSE 0) + SlashCount(chars, k + 1)

RECURSIVE FirstSlash(_, _)
FirstSlash(chars, k) ==
    IF k > Len(chars) THEN 0
    ELSE IF chars[k] = "/" THEN k
    ELSE FirstSlash(chars, k + 1)

\* new Fraction(string): split('/') into exactly two parts gives
\* parseInt(parts[0], 10) over parseInt(parts[1], 10); any other string gives
\* parseInt(string, 10) over 1
FractionFromStringOld(chars) ==
    IF SlashCount(chars, 1) = 1
    THEN FractionOld(parseInt(SubSeq(chars, 1, FirstSlash(chars, 1) - 1)),
                     parseInt(SubSeq(chars, FirstSlash(chars, 1) + 1, Len(chars))))
    ELSE FractionOld(parseInt(chars), 1)

\* new Fraction(fraction): the argument is not a string, so it reaches
\* parseInt(numerator, 10), which reads the text of its toString()
FractionFromFractionOld(fraction) == FractionOld(parseInt(toStringOld(fraction)), 1)

addOld(this, other) ==
    FractionOld(this.numerator * other.denominator + other.numerator * this.denominator,
                this.denominator * other.denominator)

subtractOld(this, other) ==
    FractionOld(this.numerator * other.denominator - other.numerator * this.denominator,
                this.denominator * other.denominator)

multiplyOld(this, other) ==
    FractionOld(this.numerator * other.numerator, this.denominator * other.denominator)

\* divide(other): throws when other.numerator === 0
divideOld(this, other) ==
    IF other.numerator = 0 THEN [error |-> "division by zero"]
    ELSE FractionOld(this.numerator * other.denominator, this.denominator * other.numerator)

\* Fraction.fromFloat, the while loop.  The remainder is the exact rational
\* rn / rd (0 <= rn < rd), so reciprocal = rd / rn, Math.floor(reciprocal) =
\* rd \div rn and the next remainder is (rd % rn) / rn.  The loop test
\* `remainder > 10^-precision` is rn > 0 for every rd below 10^precision.
RECURSIVE FromFloatLoop(_, _, _, _, _, _, _)
FromFloatLoop(numerator, denominator, tempNumerator, tempDenominator, rn, rd, iteration) ==
    IF rn > 0 /\ iteration < 20
    THEN FromFloatLoop((rd \div rn) * numerator + tempNumerator,
                       (rd \div rn) * denominator + tempDenominator,
                       numerator, denominator,
                       rd % rn, rn, iteration + 1)
    ELSE [numerator |-> numerator, denominator |-> denominator, iteration |-> iteration]

\* the state of fromFloat's loop when it is left, for a non-integer value:
\* numerator = 1, denominator = 0, tempNumerator = 0, tempDenominator = 1,
\* remainder = value - Math.floor(value)
FromFloatRun(value) ==
    FromFloatLoop(1, 0, 0, 1, value.mantissa % (10^value.places), 10^value.places, 0)

\* static fromFloat(value, precision = 10).  NaN is not an integer and
\* never enters the loop, which leaves numerator 1 over denominator 0.
fromFloat(value) ==
    IF ~IsDecimal(value)
    THEN (IF value.value = NaN THEN FractionOld(1, 0) ELSE FractionOld(value.value, 1))
    ELSE FractionOld(IF value.mantissa < 0 THEN -FromFloatRun(value).numerator
                     ELSE FromFloatRun(value).numerator,
                     FromFloatRun(value).denominator)

(***************************************************************************)
(* The legacy engine: MatrixOperations                                     *)
(***************************************************************************)
\* toFraction(value) == Fraction.fromFloat(value, this.precision)
toFractionOld(value) == fromFloat(value)

\* convertToAppropriateType(value), the later of the two methods of that
\* name in the class (the one in force): a Fraction as it is, a string with a
\* "/" through new Fraction(value), any other string through parseFloat, and
\* a number through toFraction when useFractions
convertToAppropriateTypeOld(value) ==
    IF IsFraction(value) THEN value
    ELSE IF IsText(value) /\ SlashCount(value.text, 1) > 0
    THEN FractionFromStringOld(value.text)
    ELSE IF IsText(value)
    THEN (IF useFractions THEN toFractionOld(parseFloat(value.text))
          ELSE parseFloat(value.text))
    ELSE IF useFractions THEN toFractionOld(value)
    ELSE value

\* row.map(value => this.convertToAppropriateType(value)) on integers
ConvertVectorOld(vector) ==
    [k \in 1..Len(vector) |-> convertToAppropriateTypeOld(Number(vector[k]))]

\* dotProduct(vector1, vector2) on Fractions: result = new Fraction(0), then
\* result = result.add(v1.multiply(v2)) entry by entry
RECURSIVE DotProductLoopOld(_, _, _, _)
DotProductLoopOld(vector1, vector2, i, result) ==
    IF i > Len(vector1) THEN result
    ELSE DotProductLoopOld(vector1, vector2, i + 1,
                           addOld(result, multiplyOld(vector1[i], vector2[i])))

dotProductOld(vector1, vector2) ==
    IF Len(vector1) # Len(vector2) THEN [error |-> "length mismatch"]
    ELSE DotProductLoopOld(vector1, vector2, 1, FractionOld(0, 1))

\* scalarMultiply(vector, scalar) on Fractions
scalarMultiplyOld(vector, scalar) ==
    [i \in 1..Len(vector) |-> multiplyOld(vector[i], scalar)]

\* subtractVectors(vector1, vector2) on Fractions
subtractVectorsOld(vector1, vector2) ==
    [i \in 1..Len(vector1) |-> subtractOld(vector1[i], vector2[i])]

\* vectorNorm(vector) squared, on Fractions: the sum of the squares
vectorNormSquaredOld(vector) == dotProductOld(vector, vector)

\* normalizeVector(vector): throws for the zero vector; otherwise every entry
\* is element.toFloat() * (1 / Math.sqrt(sum of squares)), a float, kept here
\* as the vector together with the squared norm it is divided by
normalizeVectorOld(vector) ==
    IF vectorNormSquaredOld(vector).numerator = 0 THEN [error |-> "zero vector"]
    ELSE [direction |-> vector, normSquared |-> vectorNormSquaredOld(vector)]

(***************************************************************************)
(* The legacy engine: analyzeVectors                                       *)
(***************************************************************************)
\* no pivot search: column j is taken as it is
FindPivotColOldNone(matrix, i, k, pivotCol) == pivotCol

\* for (k = j; k < m; k++) if (|matrix[i][k]| > |matrix[i][pivotCol]|) pivotCol = k
RECURSIVE FindPivotColOld(_, _, _, _)
FindPivotColOld(matrix, i, k, pivotCol) ==
    IF k > Len(matrix[i]) THEN pivotCol
    ELSE FindPivotColOld(matrix, i, k + 1,
                         IF AbsGreater(matrix[i][k], matrix[i][pivotCol]) THEN k ELSE pivotCol)

\* for (k = 0; k < n; k++) [matrix[k][j], matrix[k][p]] = [matrix[k][p], matrix[k][j]]
SwapColumnsOld(matrix, j, p) ==
    [k \in 1..Len(matrix) |-> [matrix[k] EXCEPT ![j] = matrix[k][p], ![p] = matrix[k][j]]]

\* for (k = i; k < n; k++) matrix[k][j] = matrix[k][j].divide(pivot)
NormalizeColumnOld(matrix, i, j, pivot) ==
    [k \in 1..Len(matrix) |->
        IF k < i THEN matrix[k]
        ELSE [matrix[k] EXCEPT ![j] = divideOld(matrix[k][j], pivot)]]

\* for (k = 0; k < m; k++) if (k !== j && matrix[i][k] is not zero) {
\*     factor = matrix[i][k].divide(matrix[i][j]);
\*     for (l = i; l < n; l++) matrix[l][k] = matrix[l][k].subtract(factor.multiply(matrix[l][j])) }
EliminateColumnsOld(matrix, i, j) ==
    [l \in 1..Len(matrix) |->
        [k \in 1..Len(matrix[l]) |->
            IF k = j \/ l < i \/ matrix[i][k].numerator = 0 THEN matrix[l][k]
            ELSE subtractOld(matrix[l][k],
                             multiplyOld(divideOld(matrix[i][k], matrix[i][j]), matrix[l][j]))]]

\* the steps one pivot adds to the trace
PivotStepsOld(steps, swapped, eliminated) ==
    steps \o (IF swapped THEN <<"swap columns">> ELSE <<>>) \o <<"normalize column">>
          \o [k \in 1..eliminated |-> "eliminate column"]

\* the loop for (i = 0, j = 0; i < n && j < m; i++): a row without a non-zero
\* entry from column j on is passed over; otherwise column j becomes a pivot
\* column and j moves on
RECURSIVE AnalyzeLoopOld(_, _, _, _, _)
AnalyzePivotOld(matrix, i, j, pivotColumns, steps, pivotCol) ==
    IF matrix[i][pivotCol].numerator = 0
    THEN AnalyzeLoopOld(matrix, i + 1, j, pivotColumns, steps)
    ELSE AnalyzeLoopOld(
             EliminateColumnsOld(
                 NormalizeColumnOld(SwapColumnsOld(matrix, j, pivotCol), i, j,
                                    matrix[i][pivotCol]),
                 i, j),
             i + 1, j + 1, Append(pivotColumns, j),
             PivotStepsOld(steps, pivotCol # j,
                 Cardinality({k \in 1..Len(matrix[i]) :
                     k # j /\ SwapColumnsOld(matrix, j, pivotCol)[i][k].numerator # 0})))

AnalyzeLoopOld(matrix, i, j, pivotColumns, steps) ==
    IF i > Len(matrix) \/ j > Len(matrix[1])
    THEN [rank |-> Len(pivotColumns), pivotColumns |-> pivotColumns, steps |-> steps]
    ELSE AnalyzePivotOld(matrix, i, j, pivotColumns, steps, FindPivotColOld(matrix, i, j, j))

\* the vectors as the columns of a matrix, every entry converted
ColumnsMatrixOld(vectors) ==
    [i \in 1..Len(vectors[1]) |->
        [j \in 1..Len(vectors) |-> convertToAppropriateTypeOld(Number(vectors[j][i]))]]

AnalyzeResultOld(m, done) ==
    [isLinearlyIndependent |-> done.rank = m, rank |-> done.rank,
     pivotColumns |-> done.pivotColumns, steps |-> done.steps]

\* analyzeVectors(vectors)
analyzeVectorsOld(vectors) ==
    IF Len(vectors) = 0 THEN [error |-> "empty"]
    ELSE IF Len(vectors[1]) = 0 THEN [error |-> "invalid"]
    ELSE IF \E i \in 1..Len(vectors) : Len(vectors[i]) # Len(vectors[1])
    THEN [error |-> "dimension mismatch"]
    ELSE AnalyzeResultOld(Len(vectors),
             AnalyzeLoopOld(ColumnsMatrixOld(vectors), 1, 1, <<>>, <<"columns">>))

(***************************************************************************)
(* The legacy engine: schmidtOrthonormalization                            *)
(***************************************************************************)
\* no projection is subtracted
ProjectOutOldSkipped(u, vOrth) == u

\* one pass of the inner loop: the projection of u on vOrth is subtracted,
\* unless dotProduct(vOrth, vOrth) is zero (`continue`)
ProjectOutOld(u, vOrth) ==
    IF dotProductOld(vOrth, vOrth).numerator = 0 THEN u
    ELSE subtractVectorsOld(u,
             scalarMultiplyOld(vOrth,
                 divideOld(dotProductOld(u, vOrth), dotProductOld(vOrth, vOrth))))

\* for (j = 0; j < i; j++) u = u - proj(u, orthogonalVectors[j])
RECURSIVE ProjectionsOld(_, _, _)
ProjectionsOld(u, orthogonalVectors, j) ==
    IF j > Len(orthogonalVectors) THEN u
    ELSE ProjectionsOld(ProjectOutOld(u, orthogonalVectors[j]), orthogonalVectors, j + 1)

\* the steps the inner loop pushes: two for every projection that is made
RECURSIVE ProjectionStepsOld(_, _, _)
ProjectionStepsOld(u, orthogonalVectors, j) ==
    IF j > Len(orthogonalVectors) THEN <<>>
    ELSE (IF dotProductOld(orthogonalVectors[j], orthogonalVectors[j]).numerator = 0
          THEN <<>> ELSE <<"projection", "after projection">>)
         \o ProjectionStepsOld(ProjectOutOld(u, orthogonalVectors[j]), orthogonalVectors, j + 1)

\* the outer loop for (i = 0; i < m; i++): u is pushed to orthogonalVectors,
\* normalizeVector(u) to orthonormalVectors
RECURSIVE SchmidtLoopOld(_, _, _, _, _)
SchmidtPushOld(processedVectors, i, orthogonalVectors, orthonormalVectors, steps, u) ==
    IF "error" \in DOMAIN normalizeVectorOld(u) THEN normalizeVectorOld(u)
    ELSE SchmidtLoopOld(processedVectors, i + 1, Append(orthogonalVectors, u),
                        Append(orthonormalVectors, normalizeVectorOld(u)),
                        steps \o ProjectionStepsOld(processedVectors[i], orthogonalVectors, 1)
                              \o <<"orthogonal vector", "unit vector">>)

SchmidtLoopOld(processedVectors, i, orthogonalVectors, orthonormalVectors, steps) ==
    IF i > Len(processedVectors)
    THEN [isLinearlyIndependent |-> TRUE, rank |-> Len(processedVectors),
          orthogonalVectors |-> orthogonalVectors,
          orthonormalVectors |-> orthonormalVectors, steps |-> steps]
    ELSE SchmidtPushOld(processedVectors, i, orthogonalVectors, orthonormalVectors, steps,
                        ProjectionsOld(processedVectors[i], orthogonalVectors, 1))

\* after analyzeVectors: the early return for a dependent family, the loop
\* otherwise
SchmidtAfterAnalysisOld(vectors, linearityResult) ==
    IF ~linearityResult.isLinearlyIndependent
    THEN [isLinearlyIndependent |-> FALSE, rank |-> linearityResult.rank,
          orthogonalVectors |-> <<>>, orthonormalVectors |-> <<>>,
          steps |-> Append(linearityResult.steps, "dependent")]
    ELSE SchmidtLoopOld([i \in 1..Len(vectors) |-> ConvertVectorOld(vectors[i])],
                        1, <<>>, <<>>, linearityResult.steps)

\* schmidtOrthonormalization(vectors)
schmidtOrthonormalizationOld(vectors) ==
    IF Len(vectors) = 0 THEN [error |-> "empty"]
    ELSE IF Len(vectors[1]) = 0 THEN [error |-> "invalid"]
    ELSE IF \E i \in 1..Len(vectors) : Len(vectors[i]) # Len(vectors[1])
    THEN [error |-> "dimension mismatch"]
    ELSE SchmidtAfterAnalysisOld(vectors, analyzeVectorsOld(vectors))

(***************************************************************************)
(* The legacy engine: calculateDeterminant.  In rational mode every        *)
(* converted entry is a Fraction, and so is every value of the             *)
(* elimination.                                                            *)
(***************************************************************************)
\* matrix.map(row => row.map(value => this.convertToAppropriateType(value)))
ConvertMatrixOld(matrix) ==
    [i \in 1..Len(matrix) |->
        [j \in 1..Len(matrix[i]) |-> convertToAppropriateTypeOld(matrix[i][j])]]

\* for (j = i; j < n; j++) if (|m[j][i]| > |m[pivotRow][i]|) pivotRow = j
RECURSIVE FindPivotRowOld(_, _, _, _)
FindPivotRowOld(m, i, j, pivotRow) ==
    IF j > Len(m) THEN pivotRow
    ELSE FindPivotRowOld(m, i, j + 1,
                         IF AbsGreater(m[j][i], m[pivotRow][i]) THEN j ELSE pivotRow)

\* row j minus factor times row i, from column i on
RowMinusOld(row, factor, pivotRow, i) ==
    [k \in 1..Len(row) |->
        IF k < i THEN row[k] ELSE subtractOld(row[k], multiplyOld(factor, pivotRow[k]))]

\* for (j = i + 1; j < n; j++): factor = m[j][i].divide(m[i][i])
EliminateBelowOld(m, i) ==
    [j \in 1..Len(m) |->
        IF j <= i THEN m[j] ELSE RowMinusOld(m[j], divideOld(m[j][i], m[i][i]), m[i], i)]

\* result = new Fraction(1); result = result.multiply(m[i][i]) for every i
RECURSIVE DiagonalProductOld(_, _, _)
DiagonalProductOld(m, i, result) ==
    IF i > Len(m) THEN result
    ELSE DiagonalProductOld(m, i + 1, multiplyOld(result, m[i][i]))

\* if (swapCount % 2 !== 0) result = result.multiply(new Fraction(-1))
SignedProductOld(m, swapCount) ==
    IF swapCount % 2 # 0
    THEN multiplyOld(DiagonalProductOld(m, 1, FractionOld(1, 1)), FractionOld(-1, 1))
    ELSE DiagonalProductOld(m, 1, FractionOld(1, 1))

RECURSIVE DeterminantLoopOld(_, _, _)

\* the rest of one iteration, the pivot row found
DeterminantStepOld(m, i, swapCount, pivotRow) ==
    IF m[pivotRow][i].numerator = 0 THEN [result |-> FractionOld(0, 1)]
    ELSE IF pivotRow # i
    THEN DeterminantLoopOld(EliminateBelowOld(SwapRows(m, i, pivotRow), i), i + 1, swapCount + 1)
    ELSE DeterminantLoopOld(EliminateBelowOld(m, i), i + 1, swapCount)

\* for (i = 0; i < n; i++)
DeterminantLoopOld(m, i, swapCount) ==
    IF i > Len(m) THEN [result |-> SignedProductOld(m, swapCount)]
    ELSE DeterminantStepOld(m, i, swapCount, FindPivotRowOld(m, i, i, i))

\* calculateDeterminant(matrix): a 1 x 1 matrix gives its converted entry
calculateDeterminantOld(matrix) ==
    IF Len(matrix) = 0 THEN [error |-> "empty"]
    ELSE IF Len(matrix[1]) = 0 THEN [error |-> "invalid"]
    ELSE IF \E i \in 1..Len(matrix) : Len(matrix[i]) # Len(matrix) THEN [error |-> "not square"]
    ELSE IF Len(matrix) = 1 THEN [result |-> convertToAppropriateTypeOld(matrix[1][1])]
    ELSE DeterminantLoopOld(ConvertMatrixOld(matrix), 1, 0)

(***************************************************************************)
(* The legacy engine: calculateCharacteristicPolynomial                    *)
(***************************************************************************)
\* [first, ...combo] for every combo
PrependOld(first, combos) == [c \in 1..Len(combos) |-> <<first>> \o combos[c]]

\* generateCombinations(arr, r): the combinations with arr[0], then those
\* without it
RECURSIVE generateCombinationsOld(_, _)
generateCombinationsOld(arr, r) ==
    IF r = 0 THEN << <<>> >>
    ELSE IF Len(arr) < r THEN <<>>
    ELSE PrependOld(arr[1], generateCombinationsOld(Tail(arr), r - 1))
         \o generateCombinationsOld(Tail(arr), r)

\* extractPrincipalMinor(matrix, indices): every Fraction is copied with
\* new Fraction(value)
extractPrincipalMinorOld(matrix, indices) ==
    [i \in 1..Len(indices) |->
        [j \in 1..Len(indices) |-> FractionFromFractionOld(matrix[indices[i]][indices[j]])]]

\* for (const combo of combinations) sum = sum.add(det)
RECURSIVE MinorsLoopOld(_, _, _, _)
MinorsLoopOld(matrix, combinations, c, sum) ==
    IF c > Len(combinations) THEN sum
    ELSE MinorsLoopOld(matrix, combinations, c + 1,
            addOld(sum, calculateDeterminantOld(
                            extractPrincipalMinorOld(matrix, combinations[c])).result))

\* calculatePrincipalMinorsSum(matrix, r) for r >= 1
calculatePrincipalMinorsSumOld(matrix, r) ==
    MinorsLoopOld(ConvertMatrixOld(matrix),
                  generateCombinationsOld([k \in 1..Len(matrix) |-> k], r), 1, FractionOld(0, 1))

\* the general path: coefficients = [1], then (-1)^r times the sum of the
\* r x r principal minors for r = 1..n
GeneralCoefficientsOld(inputMatrix) ==
    [k \in 1..(Len(inputMatrix) + 1) |->
        IF k = 1 THEN Number(1)
        ELSE IF (k - 1) % 2 = 0 THEN calculatePrincipalMinorsSumOld(inputMatrix, k - 1)
        ELSE multiplyOld(FractionOld(-1, 1), calculatePrincipalMinorsSumOld(inputMatrix, k - 1))]

\* the 2 x 2 fast path: [1, trace.multiply(new Fraction(-1)), det] with
\* trace = a.add(d) and det = a.multiply(d).subtract(b.multiply(c))
FastCoefficientsOld(inputMatrix) ==
    <<Number(1),
      multiplyOld(addOld(inputMatrix[1][1], inputMatrix[2][2]), FractionOld(-1, 1)),
      subtractOld(multiplyOld(inputMatrix[1][1], inputMatrix[2][2]),
                  multiplyOld(inputMatrix[1][2], inputMatrix[2][1]))>>

\* the fast path skipped: a 2 x 2 matrix goes the general way
FastCoefficientsOldSkipped(inputMatrix) == GeneralCoefficientsOld(inputMatrix)

\* calculateCharacteristicPolynomial(matrix): the coefficients field of the
\* returned object
calculateCharacteristicPolynomialOld(matrix) ==
    IF Len(matrix) = 0 THEN [error |-> "empty"]
    ELSE IF Len(matrix[1]) # Len(matrix) THEN [error |-> "not square"]
    ELSE IF Len(matrix) = 2
    THEN [coefficients |-> FastCoefficientsOld(ConvertMatrixOld(matrix))]
    ELSE [coefficients |-> GeneralCoefficientsOld(ConvertMatrixOld(matrix))]

(***************************************************************************)
(* Fraction calls: operands p/q and r/s are built by the constructor, then *)
(* one arithmetic method is applied; add may be followed by subtract of    *)
(* the same operand.                                                       *)
(***************************************************************************)
Nums == (-MaxNum)..MaxNum

InitFraction ==
    /\ InitEngine
    /\ pc = "fraction"
    /\ args \in [p : Nums, q : Nums \ {0}, r : Nums, s : Nums \ {0}]
    /\ ret = None

FractionNew ==
    /\ pc = "fraction"
    /\ pc' = "new"
    /\ ret' = [a |-> Fraction(args.p, args.q), b |-> Fraction(args.r, args.s),
               out |-> None]
    /\ UNCHANGED <<config, args>>

FractionAdd ==
    /\ pc = "new"
    /\ pc' = "add"
    /\ ret' = [ret EXCEPT !.out = add(ret.a, ret.b)]
    /\ UNCHANGED <<config, args>>

\* a.subtract(b), or a.add(b).subtract(b) when add has run
FractionSubtract ==
    /\ pc \in {"new", "add"}
    /\ pc' = IF pc = "new" THEN "subtract" ELSE "add_subtract"
    /\ ret' = [ret EXCEPT !.out = subtract(IF pc = "new" THEN ret.a ELSE ret.out, ret.b)]
    /\ UNCHANGED <<config, args>>

FractionMultiply ==
    /\ pc = "new"
    /\ pc' = "multiply"
    /\ ret' = [ret EXCEPT !.out = multiply(ret.a, ret.b)]
    /\ UNCHANGED <<config, args>>

FractionDivide ==
    /\ pc = "new"
    /\ pc' = "divide"
    /\ ret' = [ret EXCEPT !.out = divide(ret.a, ret.b)]
    /\ UNCHANGED <<config, args>>

\* a.divide(r) with the divisor passed as a plain number
FractionDivideNumber ==
    /\ pc = "new"
    /\ args.s = 1
    /\ pc' = "divide"
    /\ ret' = [ret EXCEPT !.out = divide(ret.a, Number(args.r))]
    /\ UNCHANGED <<config, args>>

NextFraction ==
    \/ FractionNew
    \/ FractionAdd
    \/ FractionSubtract
    \/ FractionMultiply
    \/ FractionDivide
    \/ FractionDivideNumber

SpecFraction == InitFraction /\ [][NextFraction]_vars

(***************************************************************************)
(* Calls on a square integer matrix of size 1..3                           *)
(***************************************************************************)
\* the entry range narrows as the input grows
Entries(cells) ==
    IF cells <= 4 THEN (-MaxEntry)..MaxEntry
    ELSE IF cells <= 9 THEN {-1, 0, 1}
    ELSE {0, 1}

Matrices(m, n, range) == [1..m -> [1..n -> range]]

\* matrices used by the test scripts and the documented scenarios
SquareFixtures ==
    { <<<<1, 2>>, <<3, 4>>>>,
      <<<<2, 0>>, <<0, 3>>>>,
      <<<<-1, 1, 0>>, <<1, 0, 1>>, <<1, -1, 1>>>> }

SquareMatrices ==
    UNION {Matrices(n, n, Entries(n * n)) : n \in 1..3} \cup SquareFixtures

InitSquare ==
    /\ InitEngine
    /\ pc = "square"
    /\ \E matrix \in SquareMatrices : args = [matrix |-> matrix]
    /\ ret = None

CalculateDeterminant ==
    /\ pc = "square"
    /\ pc' = "determinant"
    /\ ret' = calculateDeterminant(args.matrix)
    /\ UNCHANGED <<config, args>>

CalculateInverse ==
    /\ pc = "square"
    /\ pc' = "inverse"
    /\ ret' = calculateInverse(args.matrix)
    /\ UNCHANGED <<config, args>>

CalculateCharacteristicPolynomial ==
    /\ pc = "square"
    /\ pc' = "polynomial"
    /\ ret' = calculateCharacteristicPolynomial(args.matrix)
    /\ UNCHANGED <<config, args>>

NextSquare ==
    \/ CalculateDeterminant
    \/ CalculateInverse
    \/ CalculateCharacteristicPolynomial

SpecSquare == InitSquare /\ [][NextSquare]_vars

(***************************************************************************)
(* Calls on an m x n integer system, m, n in 1..3                          *)
(***************************************************************************)
\* the scenarios of the engine's own test script
SystemFixtures ==
    { [matrix |-> <<<<1, 2>>, <<3, 4>>>>, vector |-> <<5, 11>>],
      [matrix |-> <<<<1, 2>>, <<2, 4>>>>, vector |-> <<5, 11>>],
      [matrix |-> <<<<1, 2>>, <<2, 4>>>>, vector |-> <<5, 10>>] }

Systems(m, n) ==
    [matrix : Matrices(m, n, Entries(m * (n + 1))),
     vector : [1..m -> Entries(m * (n + 1))]]

InitSystem ==
    /\ InitEngine
    /\ pc = "system"
    /\ args \in UNION {Systems(m, n) : m \in 1..3, n \in 1..3} \cup SystemFixtures
    /\ ret = None

SolveEquations ==
    /\ pc = "system"
    /\ pc' = "solve"
    /\ ret' = solveEquations(args.matrix, args.vector)
    /\ UNCHANGED <<config, args>>

NextSystem ==
    \/ SolveEquations

SpecSystem == InitSystem /\ [][NextSystem]_vars

(***************************************************************************)
(* Calls on a family of m integer vectors of dimension n, m, n in 1..3     *)
(***************************************************************************)
Families == UNION {Matrices(m, n, Entries(m * n)) : m \in 1..3, n \in 1..3}

InitVectors ==
    /\ InitEngine
    /\ pc = "vectors"
    /\ \E vectors \in Families : args = [vectors |-> vectors]
    /\ ret = None

AnalyzeVectorsOld ==
    /\ pc = "vectors"
    /\ pc' = "analyze_old"
    /\ ret' = analyzeVectorsOld(args.vectors)
    /\ UNCHANGED <<config, args>>

SchmidtOrthonormalizationOld ==
    /\ pc = "vectors"
    /\ pc' = "schmidt_old"
    /\ ret' = schmidtOrthonormalizationOld(args.vectors)
    /\ UNCHANGED <<config, args>>

SchmidtOrthonormalization ==
    /\ pc = "vectors"
    /\ pc' = "schmidt"
    /\ ret' = schmidtOrthonormalization(args.vectors)
    /\ UNCHANGED <<config, args>>

NextVectors ==
    \/ AnalyzeVectorsOld
    \/ SchmidtOrthonormalizationOld
    \/ SchmidtOrthonormalization

SpecVectors == InitVectors /\ [][NextVectors]_vars

(***************************************************************************)
(* Calls on one matrix entry, given in each of the accepted forms.  The    *)
(* entry denotes the rational n / d; `value` is the JavaScript value the   *)
(* caller passes.                                                          *)
(***************************************************************************)
\* String(m / 100): the sign, the integer part, and the hundredths without a
\* trailing zero
DecimalText(m) ==
    LET a == IF m < 0 THEN -m ELSE m
        frac == a % 100
    IN  (IF m < 0 THEN <<"-">> ELSE <<>>)
        \o Digits(a \div 100)
        \o (IF frac = 0 THEN <<>>
            ELSE IF frac % 10 = 0 THEN <<".", DigitChars[(frac \div 10) + 1]>>
            ELSE <<".", DigitChars[(frac \div 10) + 1], DigitChars[(frac % 10) + 1]>>)

\* the text "p/q"
FractionText(p, q) == NumberToString(p) \o <<"/">> \o NumberToString(q)

Hundredths == (-(100 * MaxNum))..(100 * MaxNum)

EntryInputs ==
    {[form |-> "integer", n |-> k, d |-> 1, value |-> Number(k)] : k \in Nums}
    \cup {[form |-> "decimal", n |-> m, d |-> 100, value |-> MakeNumber(m, 2)] :
             m \in {h \in Hundredths : h % 100 # 0}}
    \cup {[form |-> "decimal string", n |-> m, d |-> 100, value |-> Text(DecimalText(m))] :
             m \in Hundredths}
    \cup {[form |-> "fraction string", n |-> pq[1], d |-> pq[2],
           value |-> Text(FractionText(pq[1], pq[2]))] :
             pq \in Nums \X (1..(2 * MaxNum))}
    \cup {[form |-> "fraction", n |-> pq[1], d |-> pq[2], value |-> Fraction(pq[1], pq[2])] :
             pq \in Nums \X (1..(2 * MaxNum))}

InitEntry ==
    /\ InitEngine
    /\ pc = "entry"
    /\ args \in EntryInputs
    /\ ret = None

\* convertToAppropriateType(value) of the current engine
ConvertToAppropriateType ==
    /\ pc = "entry"
    /\ pc' = "convert"
    /\ ret' = convertToAppropriateTypeOf(args.value)
    /\ UNCHANGED <<config, args>>

\* Fraction.fromFloat(value) of the legacy engine, on an integer or on a
\* multiple of 1/4: for these every floating-point step of the loop is the
\* exact step (remainders 1/4, 1/2, 3/4, then 1/3 up to rounding, then 0 up
\* to rounding)
FromFloat ==
    /\ pc = "entry"
    /\ args.form = "integer" \/ (args.form = "decimal" /\ args.n % 25 = 0)
    /\ pc' = "from_float"
    /\ ret' = [out |-> fromFloat(args.value),
               iterations |-> IF IsDecimal(args.value)
                              THEN FromFloatRun(args.value).iteration ELSE 0]
    /\ UNCHANGED <<config, args>>

NextEntry ==
    \/ ConvertToAppropriateType
    \/ FromFloat

SpecEntry == InitEntry /\ [][NextEntry]_vars

(***************************************************************************)
(* Calls on a pair of integer matrices                                     *)
(***************************************************************************)
\* the entry range narrows as the operand grows
PairEntries(cells) ==
    IF cells <= 2 THEN (-(MaxEntry \div 2))..(MaxEntry \div 2)
    ELSE {-1, 0, 2}

\* operands of up to two rows and two columns, the empty matrix and the
\* matrix of one empty row
Operands ==
    UNION {Matrices(m, n, PairEntries(m * n)) : m \in 1..2, n \in 1..2}
    \cup {<<>>, <<<<>>>>}

\* the pairs multiplied by the test scripts
PairFixtures ==
    { [matrix1 |-> <<<<1, 2>>, <<3, 4>>>>, matrix2 |-> <<<<5, 6>>, <<7, 8>>>>],
      [matrix1 |-> <<<<1, 2, 3>>, <<4, 5, 6>>, <<7, 8, 9>>>>,
       matrix2 |-> <<<<9, 8, 7>>, <<6, 5, 4>>, <<3, 2, 1>>>>],
      [matrix1 |-> <<<<1, 2, 3>>, <<4, 5, 6>>>>,
       matrix2 |-> <<<<7, 8>>, <<9, 10>>, <<11, 12>>>>] }

InitPair ==
    /\ InitEngine
    /\ pc = "pair"
    /\ args \in [matrix1 : Operands, matrix2 : Operands] \cup PairFixtures
    /\ ret = None

MultiplyMatrices ==
    /\ pc = "pair"
    /\ pc' = "product"
    /\ ret' = multiplyMatrices(args.matrix1, args.matrix2)
    /\ UNCHANGED <<config, args>>

NextPair ==
    \/ MultiplyMatrices

SpecPair == InitPair /\ [][NextPair]_vars

(***************************************************************************)
(* Calls on a square matrix of rationals.  An entry is the pair <<n, d>>   *)
(* of the rational n / d in lowest terms; each call receives it in the     *)
(* JavaScript form the call is made with.                                  *)
(***************************************************************************)
\* halves and integers; the range narrows as the matrix grows
RationalEntries(cells) ==
    IF cells <= 4
    THEN {<<n, 1>> : n \in (-(MaxEntry \div 2))..(MaxEntry \div 2)}
         \cup {<<n, 2>> : n \in {k \in (-(MaxEntry \div 2))..(MaxEntry \div 2) : k % 2 = 1}}
    ELSE {<<0, 1>>, <<1, 1>>, <<1, 2>>}

RationalMatrices == UNION {Matrices(n, n, RationalEntries(n * n)) : n \in 1..3}

\* the entry as a JavaScript number: n, or n/2 written as the decimal 0.5 n
AsNumbers(matrix) ==
    [i \in 1..Len(matrix) |-> [j \in 1..Len(matrix) |->
        IF matrix[i][j][2] = 1 THEN Number(matrix[i][j][1])
        ELSE MakeNumber(5 * matrix[i][j][1], 1)]]

\* the entry as a number when it is an integer, as the string "n/d" otherwise
AsFractionStrings(matrix) ==
    [i \in 1..Len(matrix) |-> [j \in 1..Len(matrix) |->
        IF matrix[i][j][2] = 1 THEN Number(matrix[i][j][1])
        ELSE Text(FractionText(matrix[i][j][1], matrix[i][j][2]))]]

InitRational ==
    /\ InitEngine
    /\ pc = "rational"
    /\ \E matrix \in RationalMatrices : args = [matrix |-> matrix]
    /\ ret = None

\* calculateDeterminant of the current engine, the entries given as numbers
CalculateDeterminantOfNumbers ==
    /\ pc = "rational"
    /\ pc' = "determinant_of"
    /\ ret' = calculateDeterminantOf(AsNumbers(args.matrix))
    /\ UNCHANGED <<config, args>>

\* calculateCharacteristicPolynomial of the legacy engine, the non-integer
\* entries given as "p/q" strings
CalculateCharacteristicPolynomialOld ==
    /\ pc = "rational"
    /\ pc' = "polynomial_old"
    /\ ret' = calculateCharacteristicPolynomialOld(AsFractionStrings(args.matrix))
    /\ UNCHANGED <<config, args>>

NextRational ==
    \/ CalculateDeterminantOfNumbers
    \/ CalculateCharacteristicPolynomialOld

SpecRational == InitRational /\ [][NextRational]_vars

(***************************************************************************)
(* Calls of generateCombinations on an array of distinct items             *)
(***************************************************************************)
MaxItems == 4

\* the arrays of n <= MaxItems distinct items
ItemArrays ==
    UNION {{arr \in [1..n -> 1..MaxItems] : \A i, j \in 1..n : i # j => arr[i] # arr[j]} :
              n \in 0..MaxItems}

InitCombinations ==
    /\ InitEngine
    /\ pc = "items"
    /\ args \in [arr : ItemArrays, k : 0..(MaxItems + 1)]
    /\ ret = None

\* generateCombinations(arr, k) of the current engine
GenerateCombinations ==
    /\ pc = "items"
    /\ pc' = "combinations"
    /\ ret' = [out |-> generateCombinations(args.arr, args.k)]
    /\ UNCHANGED <<config, args>>

\* generateCombinations(arr, r) of the legacy engine
GenerateCombinationsOld ==
    /\ pc = "items"
    /\ pc' = "combinations_old"
    /\ ret' = [out |-> generateCombinationsOld(args.arr, args.k)]
    /\ UNCHANGED <<config, args>>

NextCombinations ==
    \/ GenerateCombinations
    \/ GenerateCombinationsOld

SpecCombinations == InitCombinations /\ [][NextCombinations]_vars

(***************************************************************************)
(* Calls made one after another on one instance.  args.calls is the list   *)
(* of the calls made so far, ret.returns what each of them gave back.      *)
(* The elimination is modelled on Fraction entries: while useFractions is  *)
(* false the calls are setFormatType and multiplyMatrices, whose float     *)
(* arithmetic on integers is exact.                                        *)
(***************************************************************************)
MaxCalls == 3

\* the values setFormatType is documented to take
FormatTypes == {"integer", "rational", "decimal", "fraction"}

\* setFormatType(formatType): the fields formatType and useFractions after
\* the call
\*   'integer':  formatType = 'integer'
\*   'decimal':  formatType = 'rational'; useFractions = false
\*   'fraction': formatType = 'rational'; useFractions = true
\*   otherwise:  formatType = formatType
setFormatType(type) ==
    IF type = "integer" THEN [formatType |-> "integer", useFractions |-> useFractions]
    ELSE IF type = "decimal" THEN [formatType |-> "rational", useFractions |-> FALSE]
    ELSE IF type = "fraction" THEN [formatType |-> "rational", useFractions |-> TRUE]
    ELSE [formatType |-> type, useFractions |-> useFractions]

\* the value of a step's matrix when it is processedMatrix itself: what the
\* step shows is whatever processedMatrix holds when the step is read
TheProcessedMatrix == [object |-> "processedMatrix"]

\* the value of a step's matrix when it is null
NoMatrix == [object |-> "null"]

\* copyMatrix(matrix): matrix.map(row => [...row]), a new array of new rows
\* holding the entries of the moment
copyMatrix(matrix) == [object |-> "copy", rows |-> matrix]

\* { matrix, description } pushed while processedMatrix holds `current`;
\* pushed keeps what the matrix showed at that moment
TraceStep(matrix, description, current) ==
    [matrix |-> matrix, description |-> description,
     pushed |-> IF matrix.object = "copy" THEN matrix.rows
                ELSE IF matrix.object = "null" THEN <<>> ELSE current]

\* the rows of row i + 1 .. last with the pivot row i subtracted, the state
\* of processedMatrix after the pass j = last of the elimination loop
EliminateRowsTo(m, i, last) ==
    [j \in 1..Len(m) |->
        IF j <= i \/ j > last THEN m[j]
        ELSE RowMinus(m[j], divide(m[j][i], m[i][i]), m[i], i)]

\* for (j = i + 1; j < n; j++) { ...; steps.push({ matrix: this.copyMatrix(processedMatrix), ... }) }
RECURSIVE EliminationSteps(_, _, _, _)
EliminationSteps(m, i, j, steps) ==
    IF j > Len(m) THEN steps
    ELSE EliminationSteps(m, i, j + 1,
            Append(steps, TraceStep(copyMatrix(EliminateRowsTo(m, i, j)), "eliminate",
                                    EliminateRowsTo(m, i, j))))

\* the elimination loop of calculateDeterminant with the steps it pushes: m is
\* processedMatrix before the pass i
RECURSIVE DeterminantTrace(_, _, _)
\* the pass i after the row swap
DeterminantTraceFromPivot(m, i, steps) ==
    IF isZero(m[i][i])
    THEN [processedMatrix |-> m, steps |-> Append(steps, TraceStep(NoMatrix, "singular", m))]
    ELSE DeterminantTrace(EliminateBelow(m, i), i + 1, EliminationSteps(m, i, i + 1, steps))

\* the swap of the pass i and its step
DeterminantTraceSwap(m, i, pivotRow, steps) ==
    IF pivotRow # i
    THEN DeterminantTraceFromPivot(SwapRows(m, i, pivotRow), i,
            Append(steps, TraceStep(copyMatrix(SwapRows(m, i, pivotRow)), "swap",
                                    SwapRows(m, i, pivotRow))))
    ELSE DeterminantTraceFromPivot(m, i, steps)

DeterminantTrace(m, i, steps) ==
    IF i > Len(m) THEN [processedMatrix |-> m, steps |-> steps]
    ELSE DeterminantTraceSwap(m, i, FindPivotRow(m, Len(m), i, i, i), steps)

\* the steps as the caller reads them on return, when processedMatrix holds
\* `final`
StepsOnReturn(steps, final) ==
    [s \in 1..Len(steps) |->
        [matrix |-> IF steps[s].matrix.object = "copy" THEN steps[s].matrix.rows
                    ELSE IF steps[s].matrix.object = "null" THEN <<>> ELSE final,
         description |-> steps[s].description,
         pushed |-> steps[s].pushed]]

\* the steps list a call leaves behind that one kept across calls
StepsKeptAcrossCalls(recorded) == recorded

\* const steps = []: the list of a call starts empty whatever the calls
\* before it recorded
StepsAtEntry(recorded) == <<>>

\* the trace of calculateDeterminant(matrix) of a square matrix: the first
\* step holds processedMatrix itself, the later ones copies
DeterminantSteps(matrix, recorded) ==
    LET done == DeterminantTrace(ConvertMatrix(matrix), 1,
                    Append(StepsAtEntry(recorded),
                           TraceStep(TheProcessedMatrix, "input", ConvertMatrix(matrix))))
    IN  StepsOnReturn(done.steps, done.processedMatrix)

\* the arrays built by matrix.map(row => row.map(...)), in which the engine
\* works: they are the caller's when the call works in place
CallersArrays == "caller"

\* matrix.map(row => row.map(value => this.convertToAppropriateType(value)))
\* builds new arrays and leaves the caller's as they are
MappedArrays == "new"

\* what an array of rows of JavaScript numbers holds
Held(array) ==
    [i \in 1..Len(array) |-> [j \in 1..Len(array[i]) |-> Number(array[i][j])]]

\* what an argument holds after a call that worked in `arrays` and left
\* `written` there
ArgumentAfter(argument, arrays, written) ==
    IF arrays = "caller" THEN written ELSE Held(argument)

(***************************************************************************)
(* Calls on an array of rows that need not have the same length.  A row    *)
(* after the first is at least as long as the first, so that every entry   *)
(* the loops read exists; solveEquations is called on the arrays whose     *)
(* rows have one length, with a constant vector of any length.             *)
(***************************************************************************)
ShapeRows == UNION {[1..n -> {0, 1, 2}] : n \in 1..3}

ShapeArrays ==
    {<<row>> : row \in ShapeRows}
    \cup UNION {{<<first, second>> : second \in {row \in ShapeRows : Len(row) >= Len(first)}} :
                   first \in ShapeRows}

ShapeVectors == {<<1>>, <<1, 2>>, <<1, 2, 0>>}

\* the first n entries of every row: the columns the loops
\* for (k = ...; k < n; k++) read and write
Leading(matrix, n) == [i \in 1..Len(matrix) |-> SubSeq(matrix[i], 1, n)]

\* calculateDeterminant(matrix) on an array of rows: the validation looks at
\* matrix.length and matrix[0].length only
calculateDeterminantOfArray(matrix) ==
    IF Len(matrix) = 0 THEN [error |-> "empty"]
    ELSE IF Len(matrix[1]) = 0 THEN [error |-> "invalid"]
    ELSE IF Len(matrix) # Len(matrix[1]) THEN [error |-> "not square"]
    ELSE DeterminantLoop(ConvertMatrix(Leading(matrix, Len(matrix))), 1, <<>>)

\* augMatrix.push([...row, ...identityRow]), of which the loops read the
\* first 2n entries
AugmentedRowOfArray(matrix, i) ==
    SubSeq([j \in 1..Len(matrix[i]) |-> convertToAppropriateType(matrix[i][j])]
           \o [j \in 1..Len(matrix) |-> convertToAppropriateType(IF j = i THEN 1 ELSE 0)],
           1, 2 * Len(matrix))

\* calculateInverse(matrix) on an array of rows: an error, or the columns
\* n + 1 .. 2n of the reduced array, formatted
calculateInverseOfArray(matrix) ==
    IF Len(matrix) = 0 THEN [error |-> "empty"]
    ELSE IF Len(matrix[1]) = 0 THEN [error |-> "invalid"]
    ELSE IF Len(matrix) # Len(matrix[1]) THEN [error |-> "not square"]
    ELSE LET n == Len(matrix)
             done == InverseLoop([i \in 1..n |-> AugmentedRowOfArray(matrix, i)], 1)
         IN  IF "error" \in DOMAIN done THEN done
             ELSE [isInvertible |-> TRUE,
                   inverse |-> [i \in 1..n |->
                       formatVector([j \in 1..n |-> done.augMatrix[i][n + j]])]]

\* every row has the length of the first
IsRectangular(matrix) == \A i \in 1..Len(matrix) : Len(matrix[i]) = Len(matrix[1])

InitShape ==
    /\ InitEngine
    /\ pc = "shape"
    /\ args \in [matrix : ShapeArrays, vector : ShapeVectors]
    /\ ret = None

CalculateDeterminantOfArray ==
    /\ pc = "shape"
    /\ pc' = "shape_determinant"
    /\ ret' = calculateDeterminantOfArray(args.matrix)
    /\ UNCHANGED <<config, args>>

CalculateInverseOfArray ==
    /\ pc = "shape"
    /\ pc' = "shape_inverse"
    /\ ret' = calculateInverseOfArray(args.matrix)
    /\ UNCHANGED <<config, args>>

SolveEquationsOfArray ==
    /\ pc = "shape"
    /\ IsRectangular(args.matrix)
    /\ pc' = "shape_solve"
    /\ ret' = solveEquations(args.matrix, args.vector)
    /\ UNCHANGED <<config, args>>

NextShape ==
    \/ CalculateDeterminantOfArray
    \/ CalculateInverseOfArray
    \/ SolveEquationsOfArray

SpecShape == InitShape /\ [][NextShape]_vars

(***************************************************************************)
(* Calls of reduceToRowEchelon on an m x n integer matrix, converted entry *)
(* by entry as analyzeVectors and solveEquations convert it before the     *)
(* call                                                                    *)
(***************************************************************************)
InitEchelon ==
    /\ InitEngine
    /\ pc = "matrix"
    /\ \E m \in 1..3, n \in 1..3 :
          \E matrix \in Matrices(m, n, Entries(m * n)) : args = [matrix |-> matrix]
    /\ ret = None

ReduceToRowEchelon ==
    /\ pc = "matrix"
    /\ pc' = "rref"
    /\ ret' = [rref |-> reduceToRowEchelon(ConvertMatrix(args.matrix))]
    /\ UNCHANGED <<config, args>>

NextEchelon ==
    \/ ReduceToRowEchelon

SpecEchelon == InitEchelon /\ [][NextEchelon]_vars

(***************************************************************************)
(* analyzeVectors of the current engine and its calls on a family of m     *)
(* integer vectors of dimension n, m, n in 1..3                            *)
(***************************************************************************)
\* matrix[i][j] = processedVectors[j][i]: the vectors as columns
ColumnsMatrix(processedVectors) ==
    [i \in 1..Len(processedVectors[1]) |->
        [j \in 1..Len(processedVectors) |-> processedVectors[j][i]]]

\* the first columns, as many as there are non-zero rows
LeadingColumns(rref) == [k \in 1..calculateRank(rref) |-> k]

\* findPivotColumns(rref): for (const row of rref) the index of the first
\* non-zero entry is pushed when there is one and it is beyond the last one
\* pushed.  Columns are counted from 1, lastPivotCol starts at 0.
RECURSIVE PivotColumnsLoop(_, _, _, _)
PivotColumnsLoop(rref, i, lastPivotCol, pivotColumns) ==
    IF i > Len(rref) THEN pivotColumns
    ELSE IF findIndexNonZero(rref[i]) # 0 /\ findIndexNonZero(rref[i]) > lastPivotCol
    THEN PivotColumnsLoop(rref, i + 1, findIndexNonZero(rref[i]),
                          Append(pivotColumns, findIndexNonZero(rref[i])))
    ELSE PivotColumnsLoop(rref, i + 1, lastPivotCol, pivotColumns)

findPivotColumns(rref) == PivotColumnsLoop(rref, 1, 0, <<>>)

\* calculateLinearRelation(vectors, pivotColumns): return []
calculateLinearRelation(vectors, pivotColumns) == <<>>

\* vecs.map(vec => vec.map(value => this.formatNumber(value, currentFormat)))
FormatVectors(vecs) == [i \in 1..Len(vecs) |-> formatVector(vecs[i])]

\* the result of analyzeVectors once the row-echelon form is known
AnalyzeFromRref(processedVectors, rref, rank) ==
    IF rank = Len(processedVectors)
    THEN [rank |-> rank, isLinearlyIndependent |-> TRUE,
          basis |-> FormatVectors(processedVectors), relation |-> <<>>]
    ELSE [rank |-> rank, isLinearlyIndependent |-> FALSE,
          basis |-> FormatVectors([k \in 1..Len(findPivotColumns(rref)) |->
                                       processedVectors[findPivotColumns(rref)[k]]]),
          relation |-> FormatVectors(calculateLinearRelation(processedVectors,
                                                             findPivotColumns(rref)))]

AnalyzeFromMatrix(processedVectors, rref) ==
    AnalyzeFromRref(processedVectors, rref, calculateRank(rref))

\* analyzeVectors(vectors): an error, or { rank, isLinearlyIndependent,
\* basis, relation }
analyzeVectors(vectors) ==
    IF Len(vectors) = 0 THEN [error |-> "empty"]
    ELSE IF Len(vectors[1]) = 0 THEN [error |-> "invalid"]
    ELSE AnalyzeFromMatrix(ConvertMatrix(vectors),
                           reduceToRowEchelon(ColumnsMatrix(ConvertMatrix(vectors))))

InitAnalyze ==
    /\ InitEngine
    /\ pc = "family"
    /\ \E vectors \in Families : args = [vectors |-> vectors]
    /\ ret = None

AnalyzeVectors ==
    /\ pc = "family"
    /\ pc' = "analyze"
    /\ ret' = analyzeVectors(args.vectors)
    /\ UNCHANGED <<config, args>>

NextAnalyze ==
    \/ AnalyzeVectors

SpecAnalyze == InitAnalyze /\ [][NextAnalyze]_vars

(***************************************************************************)
(* solveEquations of the legacy engine, which works on JavaScript numbers. *)
(* A number is modelled by the rational dividend / divisor it stands for,  *)
(* in lowest terms with a positive divisor; NaN, which is also what the    *)
(* arithmetic makes of undefined, is Ratio(NaN, 1).  The rounding error of *)
(* the floating-point operations is not modelled.                          *)
(***************************************************************************)
NotANumber == Ratio(NaN, 1)

RECURSIVE CommonDivisor(_, _)
CommonDivisor(a, b) == IF b = 0 THEN a ELSE CommonDivisor(b, a % b)

\* the number a / b for b # 0
Quot(a, b) ==
    LET d == CommonDivisor(JsAbs(a), JsAbs(b))
    IN  IF b > 0 THEN Ratio(a \div d, b \div d) ELSE Ratio((-a) \div d, (-b) \div d)

\* the array entry at index j (from 1), undefined beyond the end of the row
EntryOld(row, j) == IF j \in 1..Len(row) THEN row[j] ELSE NotANumber

NumAdd(x, y) ==
    IF x.dividend = NaN \/ y.dividend = NaN THEN NotANumber
    ELSE Quot(x.dividend * y.divisor + y.dividend * x.divisor, x.divisor * y.divisor)

NumSub(x, y) ==
    IF x.dividend = NaN \/ y.dividend = NaN THEN NotANumber
    ELSE Quot(x.dividend * y.divisor - y.dividend * x.divisor, x.divisor * y.divisor)

NumMul(x, y) ==
    IF x.dividend = NaN \/ y.dividend = NaN THEN NotANumber
    ELSE Quot(x.dividend * y.dividend, x.divisor * y.divisor)

\* x / y; a division by zero gives NaN or an infinity, which are not told
\* apart here
NumDiv(x, y) ==
    IF x.dividend = NaN \/ y.dividend = NaN \/ y.dividend = 0 THEN NotANumber
    ELSE Quot(x.dividend * y.divisor, x.divisor * y.dividend)

\* isZero(value): Math.abs(value) < 1e-10, false for NaN
isZeroOld(value) == value.dividend = 0

\* round(num): Math.round(num * 10^precision) / 10^precision, with as many
\* places as toFraction keeps in this model
roundOld(num) ==
    IF num.dividend = NaN THEN NotANumber
    ELSE Quot(RoundRatio(num.dividend * 10^decimalPlaces, num.divisor), 10^decimalPlaces)

\* the search of reduceToRowEchelon for the pivot of row r:
\*   while (isZero(result[i][lead])) { i++; if (i === m) { i = r; lead++;
\*       if (lead === n) return result; } }
\* lead beyond the last column stands for the return
RECURSIVE FindLeadOld(_, _, _, _)
FindLeadOld(result, r, i, lead) ==
    IF ~isZeroOld(result[i][lead]) THEN [i |-> i, lead |-> lead]
    ELSE IF i < Len(result) THEN FindLeadOld(result, r, i + 1, lead)
    ELSE IF lead = Len(result[1]) THEN [i |-> r, lead |-> lead + 1]
    ELSE FindLeadOld(result, r, r, lead + 1)

\* if (!isZero(lv)) for (j = lead; j < n; j++) result[r][j] /= lv
NormalizeRowOld(row, lead) ==
    [j \in 1..Len(row) |-> IF j < lead THEN row[j] ELSE NumDiv(row[j], row[lead])]

\* for (i = 0; i < m; i++) if (i !== r && !isZero(result[i][lead]))
\*     for (j = lead; j < n; j++) result[i][j] -= lv * result[r][j]
EliminateOthersOld(result, r, lead) ==
    [i \in 1..Len(result) |->
        IF i = r \/ isZeroOld(result[i][lead]) THEN result[i]
        ELSE [j \in 1..Len(result[i]) |->
                IF j < lead THEN result[i][j]
                ELSE NumSub(result[i][j], NumMul(result[i][lead], result[r][j]))]]

\* the swap, the division of the pivot row and the elimination of one pass
ReduceRowOld(result, r, found) ==
    EliminateOthersOld(
        [i \in 1..Len(result) |->
            IF i = r THEN NormalizeRowOld(result[found.i], found.lead)
            ELSE IF i = found.i THEN result[r] ELSE result[i]],
        r, found.lead)

\* for (r = 0; r < m; r++) { if (lead >= n) break; ... lead++ }
RECURSIVE RowEchelonLoopOld(_, _, _)
RowEchelonFoundOld(result, r, found) ==
    IF found.lead > Len(result[1]) THEN result
    ELSE RowEchelonLoopOld(ReduceRowOld(result, r, found), r + 1, found.lead + 1)

RowEchelonLoopOld(result, r, lead) ==
    IF r > Len(result) \/ lead > Len(result[1]) THEN result
    ELSE RowEchelonFoundOld(result, r, FindLeadOld(result, r, r, lead))

reduceToRowEchelonOld(matrix) == RowEchelonLoopOld(matrix, 1, 1)

\* the rows that are not all zero
NonZeroRowsOld(rref) ==
    Cardinality({i \in 1..Len(rref) : \E j \in 1..Len(rref[i]) : ~isZeroOld(rref[i][j])})

\* calculateRank(matrix): the rows of reduceToRowEchelon(matrix) that are
\* not all zero
calculateRankOld(matrix) == NonZeroRowsOld(reduceToRowEchelonOld(matrix))

\* sum += augmentedMatrix[i][j] * x[j] for j = i + 1 .. n - 1
RECURSIVE BackSumOld(_, _, _, _, _)
BackSumOld(row, x, j, n, sum) ==
    IF j > n THEN sum
    ELSE BackSumOld(row, x, j + 1, n, NumAdd(sum, NumMul(EntryOld(row, j), x[j])))

\* the back substitution of gaussianElimination, n = augmentedMatrix.length:
\*   for (i = n - 1; i >= 0; i--) { sum = 0;
\*       for (j = i + 1; j < n; j++) sum += augmentedMatrix[i][j] * x[j];
\*       x[i] = (augmentedMatrix[i][n] - sum) / augmentedMatrix[i][i]; }
RECURSIVE BackSubstituteOld(_, _, _)
BackSubstituteOld(augmentedMatrix, i, x) ==
    IF i = 0 THEN x
    ELSE BackSubstituteOld(augmentedMatrix, i - 1,
            [x EXCEPT ![i] =
                NumDiv(NumSub(EntryOld(augmentedMatrix[i], Len(augmentedMatrix) + 1),
                              BackSumOld(augmentedMatrix[i], x, i + 1, Len(augmentedMatrix),
                                         Quot(0, 1))),
                       EntryOld(augmentedMatrix[i], i))])

\* gaussianElimination(augmentedMatrix): x = new Array(n).fill(0), the back
\* substitution, x.map(val => this.round(val, 6))
RoundAllOld(x) == [i \in 1..Len(x) |-> roundOld(x[i])]

gaussianEliminationOld(augmentedMatrix) ==
    RoundAllOld(BackSubstituteOld(augmentedMatrix, Len(augmentedMatrix),
                                  [i \in 1..Len(augmentedMatrix) |-> Quot(0, 1)]))

\* matrix[i].concat(constants[i]), every entry a number
AugmentedSystemOld(matrix, constants) ==
    [i \in 1..Len(matrix) |->
        Append([j \in 1..Len(matrix[i]) |-> Quot(matrix[i][j], 1)], Quot(constants[i], 1))]

\* row.findIndex(val => !this.isZero(val)), from 1; 0 when there is none
PivotIndexOld(row) ==
    IF \A j \in 1..Len(row) : isZeroOld(row[j]) THEN 0
    ELSE CHOOSE j \in 1..Len(row) :
            ~isZeroOld(row[j]) /\ \A l \in 1..(j - 1) : isZeroOld(row[l])

\* the last row whose pivot is in column j, 0 when there is none
PivotRowOld(rref, j) ==
    IF \A i \in 1..Len(rref) : PivotIndexOld(rref[i]) # j THEN 0
    ELSE CHOOSE i \in 1..Len(rref) :
            PivotIndexOld(rref[i]) = j /\ \A l \in (i + 1)..Len(rref) : PivotIndexOld(rref[l]) # j

\* the k-th of the columns `free`, in ascending order
FreeVariableOld(free, k) ==
    CHOOSE j \in free : Cardinality({l \in free : l < j}) = k - 1

\* the particular solution and the basis once the free columns are known
ParticularAndBasisOld(rref, n, free) ==
    [particularSolution |->
        [j \in 1..n |-> roundOld(IF j \in free THEN Quot(0, 1)
                                 ELSE rref[PivotRowOld(rref, j)][n + 1])],
     basisSolutions |->
        [k \in 1..Cardinality(free) |->
            [j \in 1..n |->
                roundOld(IF j = FreeVariableOld(free, k) THEN Quot(1, 1)
                         ELSE IF j \in free THEN Quot(0, 1)
                         ELSE NumSub(Quot(0, 1),
                                     rref[PivotRowOld(rref, j)][FreeVariableOld(free, k)]))]]]

\* findParticularSolutionAndBasis(rref): the constant of its row for a pivot
\* column and 0 for a free one; for each free column the vector with 1 in
\* that column and -rref[i][freeVar] in the pivot columns; all rounded
findParticularSolutionAndBasisOld(rref) ==
    ParticularAndBasisOld(rref, Len(rref[1]) - 1,
                          {j \in 1..(Len(rref[1]) - 1) : PivotRowOld(rref, j) = 0})

\* the result of solveEquations in the case of infinitely many solutions
SolveInfiniteOld(n, found, rankA, rankAugmented) ==
    [type |-> "infinite-solutions",
     particularSolution |-> found.particularSolution,
     basisSolutions |-> found.basisSolutions,
     rankA |-> rankA, rankAugmented |-> rankAugmented,
     dimension |-> n - rankA]

\* the classification of solveEquations once the ranks are known
SolveClassifyOld(n, rref, rankA, rankAugmented) ==
    IF rankA < rankAugmented
    THEN [type |-> "no-solution", rankA |-> rankA, rankAugmented |-> rankAugmented]
    ELSE IF rankA = rankAugmented /\ rankA = n
    THEN [type |-> "unique-solution", solution |-> gaussianEliminationOld(rref),
          rankA |-> rankA, rankAugmented |-> rankAugmented]
    ELSE SolveInfiniteOld(n, findParticularSolutionAndBasisOld(rref), rankA, rankAugmented)

\* solveEquations once the augmented matrix is reduced
SolveFromRrefOld(matrix, rref) ==
    SolveClassifyOld(Len(matrix[1]), rref, calculateRankOld(matrix), calculateRankOld(rref))

\* solveEquations(matrix, constants) of the legacy engine
solveEquationsOld(matrix, constants) ==
    IF Len(matrix) # Len(constants) THEN [error |-> "length mismatch"]
    ELSE IF \E i \in 1..Len(matrix) : Len(matrix[i]) # Len(matrix[1])
    THEN [error |-> "not rectangular"]
    ELSE SolveFromRrefOld([i \in 1..Len(matrix) |->
                              [j \in 1..Len(matrix[i]) |-> Quot(matrix[i][j], 1)]],
                          reduceToRowEchelonOld(AugmentedSystemOld(matrix, constants)))

InitSystemOld ==
    /\ InitEngine
    /\ pc = "system_old"
    /\ args \in UNION {Systems(m, n) : m \in 1..3, n \in 1..3} \cup SystemFixtures
    /\ ret = None

SolveEquationsOld ==
    /\ pc = "system_old"
    /\ pc' = "solve_old"
    /\ ret' = solveEquationsOld(args.matrix, args.vector)
    /\ UNCHANGED <<config, args>>

NextSystemOld ==
    \/ SolveEquationsOld

SpecSystemOld == InitSystemOld /\ [][NextSystemOld]_vars

(***************************************************************************)
(* The calls of one instance.  A call is recorded with the arguments as    *)
(* they were handed over (given) and as they are afterwards (arguments).   *)
(* The steps are modelled for calculateDeterminant, solveEquations and     *)
(* multiplyMatrices.                                                       *)
(***************************************************************************)
InstanceSquares == { <<<<1, 2>>, <<3, 4>>>>, <<<<1, 2, 3>>, <<4, 5, 6>>>> }

InstanceInverses == { <<<<1, 2>>, <<3, 4>>>>, <<<<1, 2>>, <<2, 4>>>> }

InstancePolynomials == { <<<<1, 2>>, <<3, 4>>>>, <<<<2, 0>>, <<0, 3>>>> }

InstancePairs ==
    { [matrix1 |-> <<<<1, 2, 3>>, <<4, 5, 6>>>>, matrix2 |-> <<<<7, 8>>, <<9, 10>>, <<11, 12>>>>],
      [matrix1 |-> <<<<1, 2>>>>, matrix2 |-> <<<<1, 2>>>>] }

InstanceSystems ==
    { [matrix |-> <<<<1, 2>>, <<3, 4>>>>, vector |-> <<5, 11>>],
      [matrix |-> <<<<1, 2>>, <<2, 4>>>>, vector |-> <<5, 10>>] }

InstanceFamilies == { <<<<1, 1>>, <<1, -1>>>>, <<<<1, 2>>, <<2, 4>>>> }

InstanceIndependentFamilies == { <<<<1, 1>>, <<1, -1>>>>, <<<<3, 4>>, <<4, -3>>>> }

\* the steps of the last call that recorded any
RECURSIVE LastSteps(_, _)
LastSteps(returns, k) ==
    IF k = 0 THEN <<>>
    ELSE IF "steps" \in DOMAIN returns[k] THEN returns[k].steps
    ELSE LastSteps(returns, k - 1)

Recorded == LastSteps(ret.returns, Len(ret.returns))

\* the arguments after a call that converted them with map
ArgumentsAfter(given) ==
    [k \in 1..Len(given) |-> ArgumentAfter(given[k], MappedArrays, ConvertMatrix(given[k]))]

\* a returned object with the steps of the call
WithSteps(returned, steps) ==
    IF "error" \in DOMAIN returned THEN returned
    ELSE [field \in DOMAIN returned \cup {"steps"} |->
            IF field = "steps" THEN steps ELSE returned[field]]

\* the steps of solveEquations(matrix, vector): the converted input, the
\* augmented matrix, the matrix after gaussianElimination, the row-echelon
\* form, the two ranks and the kind of solution
SolveSteps(matrix, vector, augmentedMatrix, recorded) ==
    StepsAtEntry(recorded) \o
    << [matrix |-> ConvertMatrix(matrix), vector |-> ConvertMatrix(<<vector>>)[1],
        description |-> "input"],
       [matrix |-> augmentedMatrix, description |-> "augmented"],
       [matrix |-> gaussianElimination(augmentedMatrix), description |-> "gauss"],
       [matrix |-> reduceToRowEchelon(gaussianElimination(augmentedMatrix)),
        description |-> "rref"],
       [matrix |-> <<>>, description |-> "rankA"],
       [matrix |-> <<>>, description |-> "rankAugmented"],
       [matrix |-> <<>>, description |-> "type"] >>

InitInstance ==
    /\ InitEngine
    /\ pc = "instance"
    /\ args = [calls |-> <<>>]
    /\ ret = [returns |-> <<>>]

\* one more call and what it gave back
Called(call, returned) ==
    /\ pc = "instance"
    /\ Len(args.calls) < MaxCalls
    /\ pc' = "instance"
    /\ args' = [calls |-> Append(args.calls, call)]
    /\ ret' = [returns |-> Append(ret.returns, returned)]

CallSetFormatType ==
    \E type \in FormatTypes :
        /\ Called([op |-> "setFormatType", type |-> type], None)
        /\ formatType' = setFormatType(type).formatType
        /\ useFractions' = setFormatType(type).useFractions
        /\ UNCHANGED precision

\* a multiplyMatrices that switched the instance to decimal output
CallMultiplyMatricesSettingFormat ==
    \E pair \in InstancePairs :
        /\ Called([op |-> "multiplyMatrices", given |-> <<pair.matrix1, pair.matrix2>>,
                   arguments |-> ArgumentsAfter(<<pair.matrix1, pair.matrix2>>)],
                  multiplyMatrices(pair.matrix1, pair.matrix2))
        /\ formatType' = setFormatType("decimal").formatType
        /\ useFractions' = setFormatType("decimal").useFractions
        /\ UNCHANGED precision

CallMultiplyMatrices ==
    \E pair \in InstancePairs :
        /\ Called([op |-> "multiplyMatrices", given |-> <<pair.matrix1, pair.matrix2>>,
                   arguments |-> ArgumentsAfter(<<pair.matrix1, pair.matrix2>>)],
                  IF "error" \in DOMAIN multiplyMatrices(pair.matrix1, pair.matrix2)
                  THEN multiplyMatrices(pair.matrix1, pair.matrix2)
                  ELSE WithSteps(multiplyMatrices(pair.matrix1, pair.matrix2),
                                 StepsAtEntry(Recorded)
                                 \o multiplyMatrices(pair.matrix1, pair.matrix2).steps))
        /\ UNCHANGED config

\* calculateDeterminant(matrix): what it returns or throws, with the steps
\* of the call when it returns; the matrix is written where processedMatrix
\* is
CallCalculateDeterminant ==
    \E matrix \in InstanceSquares :
        /\ useFractions
        /\ Called([op |-> "calculateDeterminant", given |-> <<matrix>>,
                   arguments |->
                      IF "error" \in DOMAIN calculateDeterminant(matrix) THEN <<Held(matrix)>>
                      ELSE <<ArgumentAfter(matrix, MappedArrays,
                               DeterminantTrace(ConvertMatrix(matrix), 1, <<>>).processedMatrix)>>],
                  WithSteps(calculateDeterminant(matrix), DeterminantSteps(matrix, Recorded)))
        /\ UNCHANGED config

CallCalculateInverse ==
    \E matrix \in InstanceInverses :
        /\ useFractions
        /\ Called([op |-> "calculateInverse", given |-> <<matrix>>,
                   arguments |-> ArgumentsAfter(<<matrix>>)],
                  calculateInverse(matrix))
        /\ UNCHANGED config

CallSolveEquations ==
    \E system \in InstanceSystems :
        /\ useFractions
        /\ Called([op |-> "solveEquations", given |-> <<system.matrix, <<system.vector>>>>,
                   arguments |-> ArgumentsAfter(<<system.matrix, <<system.vector>>>>)],
                  WithSteps(solveEquations(system.matrix, system.vector),
                            SolveSteps(system.matrix, system.vector,
                                       AugmentedSystem(system.matrix, system.vector),
                                       Recorded)))
        /\ UNCHANGED config

CallAnalyzeVectors ==
    \E vectors \in InstanceFamilies :
        /\ useFractions
        /\ Called([op |-> "analyzeVectors", given |-> <<vectors>>,
                   arguments |-> ArgumentsAfter(<<vectors>>)],
                  analyzeVectors(vectors))
        /\ UNCHANGED config

CallSchmidtOrthonormalization ==
    \E vectors \in InstanceIndependentFamilies :
        /\ useFractions
        /\ Called([op |-> "schmidtOrthonormalization", given |-> <<vectors>>,
                   arguments |-> ArgumentsAfter(<<vectors>>)],
                  schmidtOrthonormalization(vectors))
        /\ UNCHANGED config

CallCalculateCharacteristicPolynomial ==
    \E matrix \in InstancePolynomials :
        /\ useFractions
        /\ Called([op |-> "calculateCharacteristicPolynomial", given |-> <<matrix>>,
                   arguments |-> ArgumentsAfter(<<matrix>>)],
                  calculateCharacteristicPolynomial(matrix))
        /\ UNCHANGED config

NextInstance ==
    \/ CallSetFormatType
    \/ CallMultiplyMatrices
    \/ CallCalculateDeterminant
    \/ CallCalculateInverse
    \/ CallSolveEquations
    \/ CallAnalyzeVectors
    \/ CallSchmidtOrthonormalization
    \/ CallCalculateCharacteristicPolynomial

SpecInstance == InitInstance /\ [][NextInstance]_vars

Init ==
    \/ InitFraction \/ InitSquare \/ InitSystem \/ InitVectors \/ InitEntry \/ InitPair
    \/ InitRational \/ InitCombinations \/ InitInstance
    \/ InitShape \/ InitEchelon \/ InitAnalyze
    \/ InitSystemOld

Next ==
    \/ NextFraction \/ NextSquare \/ NextSystem \/ NextVectors \/ NextEntry \/ NextPair
    \/ NextRational \/ NextCombinations \/ NextInstance
    \/ NextShape \/ NextEchelon \/ NextAnalyze
    \/ NextSystemOld

Spec == Init /\ [][Next]_vars

(***************************************************************************)
(* Reference arithmetic, independent of the Fraction class: rationals are  *)
(* compared by cross-multiplication of integers.                           *)
(***************************************************************************)
IsInteger(x) == x # NaN /\ x # Hang

\* f is a returned Fraction object whose fields are integers
IsProperFraction(f) ==
    /\ IsFraction(f)
    /\ IsInteger(f.numerator)
    /\ IsInteger(f.denominator)

\* denominator > 0 and no common divisor above 1
InLowestTerms(f) ==
    /\ IsProperFraction(f)
    /\ f.denominator > 0
    /\ \A k \in 2..f.denominator : ~(f.numerator % k = 0 /\ f.denominator % k = 0)

\* the Fraction f denotes the rational n / d  (d # 0)
Denotes(f, n, d) ==
    /\ IsProperFraction(f)
    /\ f.denominator # 0
    /\ f.numerator * d = n * f.denominator

FractionOpDone == pc \in {"add", "subtract", "multiply", "divide", "add_subtract"}

(***************************************************************************)
(* Claims about the Fraction class (SpecFraction)                          *)
(***************************************************************************)
\* C1: every Fraction built by the constructor from integers p and q # 0, and
\* every Fraction returned by add, subtract, multiply, or by divide with a
\* non-zero divisor, has denominator > 0 and gcd(|numerator|, denominator) = 1;
\* zero is stored as 0/1.
C1_ReducedInvariant ==
    /\ pc = "new" =>
          /\ InLowestTerms(ret.a)
          /\ InLowestTerms(ret.b)
          /\ (args.p = 0 => ret.a = [numerator |-> 0, denominator |-> 1])
    /\ (FractionOpDone /\ ~(pc = "divide" /\ args.r = 0)) =>
          /\ InLowestTerms(ret.out)
          /\ (ret.out.numerator = 0 => ret.out.denominator = 1)

\* C1 witness: a quotient of two negative-denominator operands with a common
\* factor has been reduced and its sign moved to the numerator.
C1_Witness ==
    /\ pc = "divide"
    /\ args.q < 0 /\ args.s < 0 /\ args.p = 2 /\ args.r = -4
    /\ ret.out.numerator < 0
    /\ ret.out.denominator > 1

\* C2: Fraction(p, q) equals p/q, and add, subtract, multiply, divide return the
\* exact sum, difference, product and quotient in lowest terms
\* (1/2 + 1/3 = 5/6, 1/2 - 1/3 = 1/6, 1/2 * 1/3 = 1/6, 1/2 / 1/3 = 3/2).
C2_ExactArithmetic ==
    LET p == args.p  q == args.q  r == args.r  s == args.s
        half_third == p = 1 /\ q = 2 /\ r = 1 /\ s = 3
    IN  /\ pc = "new" => Denotes(ret.a, p, q) /\ Denotes(ret.b, r, s)
        /\ pc = "add" =>
              /\ Denotes(ret.out, p * s + r * q, q * s) /\ InLowestTerms(ret.out)
              /\ (half_third => ret.out = [numerator |-> 5, denominator |-> 6])
        /\ pc = "subtract" =>
              /\ Denotes(ret.out, p * s - r * q, q * s) /\ InLowestTerms(ret.out)
              /\ (half_third => ret.out = [numerator |-> 1, denominator |-> 6])
        /\ pc = "multiply" =>
              /\ Denotes(ret.out, p * r, q * s) /\ InLowestTerms(ret.out)
              /\ (half_third => ret.out = [numerator |-> 1, denominator |-> 6])
        /\ (pc = "divide" /\ r # 0) =>
              /\ Denotes(ret.out, p * s, q * r) /\ InLowestTerms(ret.out)
              /\ (half_third => ret.out = [numerator |-> 3, denominator |-> 2])

\* C2 witness: 1/2 divided by 1/3 has returned 3/2.
C2_Witness ==
    /\ pc = "divide"
    /\ args = [p |-> 1, q |-> 2, r |-> 1, s |-> 3]
    /\ ret.out = [numerator |-> 3, denominator |-> 2]

\* C3: a.add(b).subtract(b) has the same numerator and the same denominator as a.
C3_AddSubtractRoundTrip ==
    pc = "add_subtract" =>
        /\ ret.out.numerator = ret.a.numerator
        /\ ret.out.denominator = ret.a.denominator

\* C3 witness: the round trip has run on operands with different denominators,
\* through an intermediate sum that differs from a.
C3_Witness ==
    /\ pc = "add_subtract"
    /\ ret.a.denominator # ret.b.denominator
    /\ ret.b.numerator # 0
    /\ ret.a.denominator > 1
    /\ ret.out = ret.a

\* an outcome that is a thrown error rather than a returned value
Threw(x) == "error" \in DOMAIN x

\* C4: Fraction.divide fails with a DivisionByZero error whenever the divisor's
\* numerator is zero; it never returns a Fraction, and no Fraction with
\* denominator 0 is ever produced.
C4_DivideByZeroFails ==
    /\ (pc = "divide" /\ ret.b.numerator = 0) =>
          /\ Threw(ret.out)
          /\ ~IsFraction(ret.out)
    /\ FractionOpDone => (IsFraction(ret.out) => ret.out.denominator # 0)

(***************************************************************************)
(* Reference linear algebra on integer matrices, independent of the engine *)
(***************************************************************************)
\* the matrix without row i and column j
Minor(A, i, j) ==
    [r \in 1..(Len(A) - 1) |->
        [c \in 1..(Len(A) - 1) |->
            A[IF r < i THEN r ELSE r + 1][IF c < j THEN c ELSE c + 1]]]

\* the determinant by cofactor expansion along the first row
RECURSIVE CofactorDet(_)
RECURSIVE CofactorSum(_, _)
CofactorSum(A, j) ==
    IF j > Len(A) THEN 0
    ELSE (IF j % 2 = 1 THEN 1 ELSE -1) * A[1][j] * CofactorDet(Minor(A, 1, j))
         + CofactorSum(A, j + 1)

CofactorDet(A) == IF Len(A) = 1 THEN A[1][1] ELSE CofactorSum(A, 1)

RECURSIVE SumTo(_, _)
\* f[1] + ... + f[n]
SumTo(f, n) == IF n = 0 THEN 0 ELSE f[n] + SumTo(f, n - 1)

RECURSIVE ProductTo(_, _)
\* f[1] * ... * f[n]
ProductTo(f, n) == IF n = 0 THEN 1 ELSE f[n] * ProductTo(f, n - 1)

\* a square integer matrix is singular when some non-zero integer combination
\* of its rows is the zero row; the coefficients can be taken among the
\* cofactors, which are bounded by the entries (n <= 2) or by 2 (n = 3 with
\* entries in -1..1)
Singular(A) ==
    LET n == Len(A)
        K == IF n <= 2 THEN MaxEntry ELSE 2
    IN  \E c \in [1..n -> (-K)..K] :
            /\ \E i \in 1..n : c[i] # 0
            /\ \A j \in 1..n : SumTo([i \in 1..n |-> c[i] * A[i][j]], n) = 0

IsIdentityMatrix(A) ==
    \A i, j \in 1..Len(A) : A[i][j] = IF i = j THEN 1 ELSE 0

\* a returned determinant (a number or a Fraction) has the integer value v
ValueIs(result, v) ==
    IF IsFraction(result) THEN Denotes(result, v, 1)
    ELSE result.value = v

\* a formatted entry read back as a rational: "n" is n/1, "n/d" is n/d
TextNumerator(t) == t[1]

TextDenominator(t) == IF Len(t) = 2 THEN t[2] ELSE 1

IsRationalText(t) ==
    /\ Len(t) \in {1, 2}
    /\ \A k \in 1..Len(t) : IsInteger(t[k])
    /\ TextDenominator(t) # 0

\* the formatted row `texts`, read as rationals, times the integer column col
\* equals the integer v
RowTimesColumnIs(texts, col, v) ==
    LET n == Len(texts)
        D == ProductTo([k \in 1..n |-> TextDenominator(texts[k])], n)
    IN  /\ \A k \in 1..n : IsRationalText(texts[k])
        /\ SumTo([k \in 1..n |->
                    TextNumerator(texts[k]) * col[k] * (D \div TextDenominator(texts[k]))], n)
           = v * D

Column(A, j) == [i \in 1..Len(A) |-> A[i][j]]

Returned(x) == ~Threw(x)

(***************************************************************************)
(* Claims about calculateDeterminant and calculateInverse (SpecSquare)     *)
(***************************************************************************)
\* C5: in rational mode calculateDeterminant returns, for every square integer
\* matrix of size n <= 3, the exact determinant given by cofactor expansion:
\* 1 for every identity matrix, 0 exactly when the matrix is singular, and -2
\* for [[1,2],[3,4]].
C5_DeterminantExact ==
    pc = "determinant" =>
        /\ Returned(ret)
        /\ ValueIs(ret.result, CofactorDet(args.matrix))
        /\ (IsIdentityMatrix(args.matrix) => ValueIs(ret.result, 1))
        /\ (ValueIs(ret.result, 0) <=> Singular(args.matrix))
        /\ (args.matrix = <<<<1, 2>>, <<3, 4>>>> => ValueIs(ret.result, -2))

\* C5 witness: a 3 x 3 determinant that needs a row swap in the first column
\* and a non-integer pivot (0 1 1 / 1 0 1 / 1 1 0 has determinant 2).
C5_Witness ==
    /\ pc = "determinant"
    /\ args.matrix = <<<<0, 1, 1>>, <<1, 0, 1>>, <<1, 1, 0>>>>
    /\ ValueIs(ret.result, 2)

\* C6: for every invertible integer matrix A of size n <= 3, the matrix
\* returned by calculateInverse in rational mode, read entry by entry as
\* rationals, multiplied by A equals the identity exactly
\* ([[1,2],[3,4]] gives [[-2,1],[3/2,-1/2]]).
C6_InverseTimesMatrix ==
    (pc = "inverse" /\ ~Singular(args.matrix)) =>
        /\ Returned(ret)
        /\ Len(ret.inverse) = Len(args.matrix)
        /\ \A i, j \in 1..Len(args.matrix) :
              /\ Len(ret.inverse[i]) = Len(args.matrix)
              /\ RowTimesColumnIs(ret.inverse[i], Column(args.matrix, j),
                                  IF i = j THEN 1 ELSE 0)
        /\ (args.matrix = <<<<1, 2>>, <<3, 4>>>> =>
              ret.inverse = <<<< <<-2>>, <<1>> >>, << <<3, 2>>, <<-1, 2>> >>>>)

\* C6 witness: the inverse of [[1,2],[3,4]] has been returned with the
\* non-integer entries 3/2 and -1/2.
C6_Witness ==
    /\ pc = "inverse"
    /\ args.matrix = <<<<1, 2>>, <<3, 4>>>>
    /\ Returned(ret)
    /\ ret.inverse[2] = << <<3, 2>>, <<-1, 2>> >>

\* C7: calculateInverse throws the not-invertible error exactly when the
\* square input matrix is singular, and for every non-singular matrix it
\* returns isInvertible = true without throwing.
C7_ThrowsIffSingular ==
    pc = "inverse" =>
        /\ Singular(args.matrix) => (Threw(ret) /\ ret.error = "not invertible")
        /\ ~Singular(args.matrix) => (Returned(ret) /\ ret.isInvertible = TRUE)

\* C7 witness: a singular 3 x 3 matrix without zero entries has been rejected
\* at its last pivot.
C7_Witness ==
    /\ pc = "inverse"
    /\ Len(args.matrix) = 3
    /\ \A i, j \in 1..3 : args.matrix[i][j] # 0
    /\ args.matrix[1] # args.matrix[2]
    /\ Threw(ret)
    /\ ret.error = "not invertible"

(***************************************************************************)
(* Reference rank of an integer matrix: the size of its largest non-zero   *)
(* minor                                                                    *)
(***************************************************************************)
\* the elements of a set of indices in ascending order
Ascending(T) ==
    [k \in 1..Cardinality(T) |-> CHOOSE x \in T : Cardinality({y \in T : y < x}) = k - 1]

SubMatrix(A, rows, cols) ==
    LET R == Ascending(rows)
        C == Ascending(cols)
    IN  [i \in 1..Len(R) |-> [j \in 1..Len(C) |-> A[R[i]][C[j]]]]

HasNonZeroMinor(A, r) ==
    \E rows \in SUBSET (1..Len(A)) :
        /\ Cardinality(rows) = r
        /\ \E cols \in SUBSET (1..Len(A[1])) :
              /\ Cardinality(cols) = r
              /\ CofactorDet(SubMatrix(A, rows, cols)) # 0

Rank(A) ==
    CHOOSE r \in 0..Min(Len(A), Len(A[1])) :
        /\ r = 0 \/ HasNonZeroMinor(A, r)
        /\ \A k \in (r + 1)..Min(Len(A), Len(A[1])) : ~HasNonZeroMinor(A, k)

\* [A|b]
Augmented(A, b) == [i \in 1..Len(A) |-> Append(A[i], b[i])]

\* the first j columns of A
Columns(A, j) == [i \in 1..Len(A) |-> SubSeq(A[i], 1, j)]

\* column j is free when it depends on the columns before it
IsFreeColumn(A, j) ==
    Rank(Columns(A, j)) = IF j = 1 THEN 0 ELSE Rank(Columns(A, j - 1))

FreeColumns(A) == {j \in 1..Len(A[1]) : IsFreeColumn(A, j)}

Consistent(A, b) == Rank(A) = Rank(Augmented(A, b))

\* the formatted vector x, read as rationals, satisfies A.x = b
Satisfies(A, x, b) ==
    /\ Len(x) = Len(A[1])
    /\ \A i \in 1..Len(A) : RowTimesColumnIs(x, A[i], b[i])

\* the formatted entry t reads as the integer v
TextIs(t, v) == IsRationalText(t) /\ TextNumerator(t) = v * TextDenominator(t)

Classified(x) == "type" \in DOMAIN x

(***************************************************************************)
(* Claims about solveEquations (SpecSystem)                                *)
(***************************************************************************)
\* C8: on every m x n integer system (m, n <= 3) solveEquations reports rankA
\* and rankAugmented equal to the true ranks of A and [A|b], and returns type
\* 'inconsistent' exactly when rank(A) < rank([A|b]), 'unique' exactly when
\* rank(A) = rank([A|b]) = n, and 'infinite' in every other case.
C8_RanksAndClassification ==
    pc = "solve" =>
        LET A == args.matrix
            rA == Rank(A)
            rAb == Rank(Augmented(A, args.vector))
        IN  /\ Classified(ret)
            /\ ret.rankA = rA
            /\ ret.rankAugmented = rAb
            /\ ret.type = IF rA < rAb THEN "inconsistent"
                          ELSE IF rA = Len(A[1]) THEN "unique"
                          ELSE "infinite"

\* what C8 says, for the calls that return
SolveClassifiesWhenItReturns == (pc = "solve" /\ ~Classified(ret)) \/ C8_RanksAndClassification

\* C9: whenever solveEquations classifies a system as unique, the returned
\* solution has exactly n entries and satisfies every equation A.x = b exactly
\* ([[1,2],[3,4]], [5,11] gives [1,2]); and a consistent system gets a unique
\* solution exactly when rank(A) = n.
C9_UniqueSolution ==
    pc = "solve" =>
        LET A == args.matrix
            b == args.vector
            unique == Classified(ret) /\ ret.type = "unique"
        IN  /\ unique => Satisfies(A, ret.solution, b)
            /\ Consistent(A, b) => (unique <=> Rank(A) = Len(A[1]))
            /\ (A = <<<<1, 2>>, <<3, 4>>>> /\ b = <<5, 11>>) =>
                  (unique /\ ret.solution = << <<1>>, <<2>> >>)

\* C9 witness: a 3 x 3 system has been given a unique solution with a
\* non-integer entry.
C9_Witness ==
    /\ pc = "solve"
    /\ Len(args.matrix) = 3 /\ Len(args.matrix[1]) = 3
    /\ Classified(ret)
    /\ ret.type = "unique"
    /\ \E j \in 1..3 : Len(ret.solution[j]) = 2
    /\ Satisfies(args.matrix, ret.solution, args.vector)

\* C10: for every consistent integer system with rank(A) < n (including systems
\* whose reduced row-echelon form contains non-integer fractions),
\* solveEquations returns a particular solution p with all free variables 0 and
\* A.p = b, and exactly n - rank(A) basis vectors, each with its own free
\* variable equal to 1 and each satisfying A.v = 0.
C10_ParticularSolutionAndBasis ==
    LET A == args.matrix
        b == args.vector
        n == Len(A[1])
        free == Ascending(FreeColumns(A))
        zero == [i \in 1..Len(A) |-> 0]
    IN  (pc = "solve" /\ Consistent(A, b) /\ Rank(A) < n) =>
            /\ Classified(ret)
            /\ ret.type = "infinite"
            /\ Satisfies(A, ret.particularSolution, b)
            /\ \A k \in 1..Len(free) : TextIs(ret.particularSolution[free[k]], 0)
            /\ Len(ret.basis) = n - Rank(A)
            /\ \A k \in 1..Len(ret.basis) :
                  /\ Satisfies(A, ret.basis[k], zero)
                  /\ TextIs(ret.basis[k][free[k]], 1)

\* what C10 says, for the calls that return
InfiniteSolutionsWhenItReturns ==
    (pc = "solve" /\ ~Classified(ret)) \/ C10_ParticularSolutionAndBasis

(***************************************************************************)
(* Reference characteristic polynomial of an integer matrix                *)
(***************************************************************************)
RECURSIVE MinorsSum(_, _)
\* the sum of the determinants of the principal minors on the index sets
MinorsSum(A, sets) ==
    IF sets = {} THEN 0
    ELSE LET S == CHOOSE T \in sets : TRUE
         IN  CofactorDet(SubMatrix(A, S, S)) + MinorsSum(A, sets \ {S})

\* (-1)^r times the sum of all r x r principal minors; 1 for r = 0
PolynomialCoefficient(A, r) ==
    IF r = 0 THEN 1
    ELSE (IF r % 2 = 0 THEN 1 ELSE -1)
         * MinorsSum(A, {S \in SUBSET (1..Len(A)) : Cardinality(S) = r})

HasCoefficients(x) == "coefficients" \in DOMAIN x

(***************************************************************************)
(* Claims about calculateCharacteristicPolynomial (SpecSquare)             *)
(***************************************************************************)
\* C11: calculateCharacteristicPolynomial returns, for every n x n integer
\* matrix (n <= 3), n + 1 coefficients where the coefficient of x^(n-r) equals
\* (-1)^r times the sum of the determinants of all r x r principal minors, the
\* r = 0 coefficient being 1; for [[2,0],[0,3]] the coefficients are 1, -5, 6.
C11_CharacteristicCoefficients ==
    pc = "polynomial" =>
        LET A == args.matrix
            n == Len(A)
        IN  /\ HasCoefficients(ret)
            /\ Len(ret.coefficients) = n + 1
            /\ \A r \in 0..n : TextIs(ret.coefficients[r + 1], PolynomialCoefficient(A, r))
            /\ (A = <<<<2, 0>>, <<0, 3>>>> => ret.coefficients = << <<1>>, <<-5>>, <<6>> >>)

\* what the call returns for [[2,0],[0,3]]: the two 1 x 1 minors 2 and 3 are
\* appended to the text of the running sum, "0" then "02" then "023", which
\* is read back as 23; no sign is applied to any coefficient
C11_ReturnsConcatenatedDigits ==
    (pc = "polynomial" /\ args.matrix = <<<<2, 0>>, <<0, 3>>>>) =>
        ret = [coefficients |-> << <<1>>, <<23>>, <<6>> >>]

(***************************************************************************)
(* Reference orthogonality of vectors of rationals, by integers only       *)
(***************************************************************************)
\* the dot product of u and v is zero: the terms are brought to the common
\* denominator D
OrthogonalExactly(u, v) ==
    LET n == Len(u)
        D == ProductTo([k \in 1..n |-> u[k].denominator * v[k].denominator], n)
    IN  /\ \A k \in 1..n : IsProperFraction(u[k]) /\ IsProperFraction(v[k])
        /\ D # 0
        /\ SumTo([k \in 1..n |->
                    u[k].numerator * v[k].numerator
                    * (D \div (u[k].denominator * v[k].denominator))], n) = 0

IsZeroVector(u) == \A k \in 1..Len(u) : u[k].numerator = 0

\* the family is linearly independent: its rank is the number of vectors
Independent(vectors) == Rank(vectors) = Len(vectors)

ZeroFraction == [numerator |-> 0, denominator |-> 1]

(***************************************************************************)
(* Claims about the legacy schmidtOrthonormalization (SpecVectors)         *)
(***************************************************************************)
\* C12: in the legacy engine in rational mode, for every linearly independent
\* family of up to 3 integer vectors, the orthogonalVectors returned by
\* schmidtOrthonormalization are pairwise orthogonal exactly:
\* dotProduct(orth_i, orth_j) is the fraction 0 for all i # j, and no returned
\* orthogonal vector is the zero vector.
C12_LegacyOrthogonal ==
    (pc = "schmidt_old" /\ Independent(args.vectors)) =>
        /\ Returned(ret)
        /\ Len(ret.orthogonalVectors) = Len(args.vectors)
        /\ \A i, j \in 1..Len(ret.orthogonalVectors) :
              i # j =>
                 /\ dotProductOld(ret.orthogonalVectors[i], ret.orthogonalVectors[j])
                       = ZeroFraction
                 /\ OrthogonalExactly(ret.orthogonalVectors[i], ret.orthogonalVectors[j])
        /\ \A i \in 1..Len(ret.orthogonalVectors) : ~IsZeroVector(ret.orthogonalVectors[i])

\* C12 witness: three independent vectors have been orthogonalised, the last
\* one into a vector with a non-integer entry.
C12_Witness ==
    /\ pc = "schmidt_old"
    /\ Len(args.vectors) = 3
    /\ Independent(args.vectors)
    /\ Returned(ret)
    /\ Len(ret.orthogonalVectors) = 3
    /\ \E k \in 1..3 : ret.orthogonalVectors[3][k].denominator > 1
    /\ OrthogonalExactly(ret.orthogonalVectors[3], ret.orthogonalVectors[2])

\* the labels of the steps that the orthogonalisation loop pushes
LoopSteps == {"projection", "after projection", "orthogonal vector", "unit vector"}

\* C20: the legacy schmidtOrthonormalization returns isLinearlyIndependent =
\* false with empty orthogonalVectors and orthonormalVectors exactly when the
\* input vectors are linearly dependent (rank < number of vectors), performing
\* no projection or normalisation step in that case; for independent input it
\* returns isLinearlyIndependent = true with one orthogonal and one
\* orthonormal vector per input vector.
C20_LegacyEarlyReturn ==
    pc = "schmidt_old" =>
        /\ Returned(ret)
        /\ ret.isLinearlyIndependent = Independent(args.vectors)
        /\ ~Independent(args.vectors) =>
              /\ ret.orthogonalVectors = <<>>
              /\ ret.orthonormalVectors = <<>>
              /\ ret.rank = Rank(args.vectors)
              /\ \A k \in 1..Len(ret.steps) : ret.steps[k] \notin LoopSteps
        /\ Independent(args.vectors) =>
              /\ Len(ret.orthogonalVectors) = Len(args.vectors)
              /\ Len(ret.orthonormalVectors) = Len(args.vectors)

\* C20 witness: three pairwise different non-zero vectors of rank 2 have been
\* turned away without any output vector.
C20_Witness ==
    /\ pc = "schmidt_old"
    /\ Len(args.vectors) = 3
    /\ Rank(args.vectors) = 2
    /\ \A i, j \in 1..3 : i # j => args.vectors[i] # args.vectors[j]
    /\ \A i \in 1..3 : \E k \in 1..Len(args.vectors[i]) : args.vectors[i][k] # 0
    /\ ret.isLinearlyIndependent = FALSE
    /\ ret.orthogonalVectors = <<>>

(***************************************************************************)
(* Claims about the current schmidtOrthonormalization (SpecVectors)        *)
(***************************************************************************)
\* a formatted vector read back as a vector of Fractions
TextsAsFractions(texts) ==
    [k \in 1..Len(texts) |->
        [numerator |-> TextNumerator(texts[k]), denominator |-> TextDenominator(texts[k])]]

ReturnedOrthogonal(x) == "orthogonal" \in DOMAIN x

\* C19: in the current engine in rational mode, for every linearly independent
\* family of up to 3 integer vectors, schmidtOrthonormalization subtracts from
\* each vector its projection (dot(v_i, u_j) / dot(u_j, u_j)) u_j onto every
\* earlier orthogonal vector, so that the returned orthogonal vectors are
\* pairwise orthogonal exactly.
C19_SchmidtOrthogonal ==
    (pc = "schmidt" /\ Independent(args.vectors)) =>
        /\ ReturnedOrthogonal(ret)
        /\ Len(ret.orthogonal) = Len(args.vectors)
        /\ \A i, j \in 1..Len(ret.orthogonal) :
              i # j =>
                 /\ \A k \in 1..Len(ret.orthogonal[i]) : IsRationalText(ret.orthogonal[i][k])
                 /\ OrthogonalExactly(TextsAsFractions(ret.orthogonal[i]),
                                      TextsAsFractions(ret.orthogonal[j]))

\* what C19 says, for the calls that return
SchmidtOrthogonalWhenItReturns ==
    (pc = "schmidt" /\ ~ReturnedOrthogonal(ret)) \/ C19_SchmidtOrthogonal

\* the call returns only orthogonal vectors whose components are all integers
SchmidtReturnsIntegerVectorsOnly ==
    (pc = "schmidt" /\ ReturnedOrthogonal(ret)) =>
        \A i \in 1..Len(ret.orthogonal) :
            \A k \in 1..Len(ret.orthogonal[i]) : Len(ret.orthogonal[i][k]) = 1

\* the operations of the current engine
Operations == {"determinant", "inverse", "solve", "analyze", "schmidt", "polynomial"}

\* the call came back: with a result object or with an error
Terminated(x) ==
    /\ ~IsHung(x)
    /\ (pc = "determinant" /\ Returned(x)) => ~FractionHangs(x.result)

\* C16: every top-level operation of the current engine in rational mode
\* (calculateDeterminant, calculateInverse, solveEquations, analyzeVectors,
\* schmidtOrthonormalization, calculateCharacteristicPolynomial) terminates, by
\* returning or by throwing, for every rectangular input whose entries are
\* integers or finite decimals such as 0.5; every call of Fraction.gcd made
\* during the operation leaves its loop.
C16_OperationsTerminate == pc \in Operations => Terminated(ret)

(***************************************************************************)
(* Claims about matrices of rationals (SpecRational)                       *)
(***************************************************************************)
\* 2 A, an integer matrix when the entries of A are integers and halves
Doubled(A) ==
    [i \in 1..Len(A) |-> [j \in 1..Len(A) |-> A[i][j][1] * (2 \div A[i][j][2])]]

AllIntegers(A) == \A i, j \in 1..Len(A) : A[i][j][2] = 1

\* a returned number or Fraction denotes the rational n / d
ValueDenotes(x, n, d) ==
    IF IsFraction(x) THEN Denotes(x, n, d)
    ELSE "value" \in DOMAIN x /\ IsInteger(x.value) /\ x.value * d = n

\* C17: for every non-singular square matrix with rational entries (integers
\* or non-integer values such as 1/2), the result of calculateDeterminant in
\* the current engine equals the product of the recorded pivots times
\* (-1)^(number of row swaps), which is the determinant, whatever the order in
\* which row swaps and non-integer pivots occur during elimination.
C17_DeterminantOfRationals ==
    (pc = "determinant_of" /\ CofactorDet(Doubled(args.matrix)) # 0) =>
        /\ Returned(ret)
        /\ ValueDenotes(ret.result, CofactorDet(Doubled(args.matrix)), 2^Len(args.matrix))

\* what C17 says, for the calls whose product loop returns
DeterminantExactWhenItReturns ==
    (pc = "determinant_of" /\ FractionHangs(ret.result)) \/ C17_DeterminantOfRationals

\* what C17 says, up to 2 x 2, where no row swap can follow a pivot
DeterminantExactUpTo2x2 ==
    (pc = "determinant_of" /\ Len(args.matrix) = 3) \/ C17_DeterminantOfRationals

\* the coefficients are those of the characteristic polynomial of A
CoefficientsExact(coefficients, A) ==
    /\ Len(coefficients) = Len(A) + 1
    /\ \A r \in 0..Len(A) :
          ValueDenotes(coefficients[r + 1], PolynomialCoefficient(Doubled(A), r), 2^r)

\* C18: in the legacy engine in rational mode, calculateCharacteristicPolynomial
\* returns coefficients[r] = (-1)^r times the sum of all r x r principal minors
\* for r = 0..n, for every n x n matrix (n <= 3) with rational entries
\* including "p/q" strings; for n = 2 the fast path returns [1, -tr(A), det(A)],
\* which is the same list the general principal-minor path would produce.
C18_LegacyCharacteristicPolynomial ==
    pc = "polynomial_old" =>
        /\ HasCoefficients(ret)
        /\ CoefficientsExact(ret.coefficients, args.matrix)
        /\ Len(args.matrix) = 2 =>
              ret.coefficients
                 = GeneralCoefficientsOld(ConvertMatrixOld(AsFractionStrings(args.matrix)))

\* the fast path alone is exact
LegacyFastPathExact ==
    (pc = "polynomial_old" /\ Len(args.matrix) = 2) =>
        /\ HasCoefficients(ret)
        /\ CoefficientsExact(ret.coefficients, args.matrix)

\* what C18 says, for the matrices of integers
LegacyPolynomialExactOnIntegers ==
    (pc = "polynomial_old" /\ ~AllIntegers(args.matrix)) \/ C18_LegacyCharacteristicPolynomial

(***************************************************************************)
(* Claims about the conversion of one entry (SpecEntry)                    *)
(***************************************************************************)
\* C13: convertToAppropriateType of the current engine in rational mode maps
\* every accepted entry form to the rational it denotes: an integer n to n/1, a
\* decimal string or number such as "0.5" to 1/2, a "p/q" string to the reduced
\* fraction p/q ("1/2" to 1/2, "-3/6" to -1/2), and an existing Fraction to
\* itself.
C13_EntryForms ==
    pc = "convert" =>
        /\ Denotes(ret, args.n, args.d)
        /\ InLowestTerms(ret)
        /\ (args.form = "integer" => ret = [numerator |-> args.n, denominator |-> 1])
        /\ (args.form = "fraction" => ret = args.value)
        /\ (args.value = Text(<<"0", ".", "5">>) => ret = [numerator |-> 1, denominator |-> 2])
        /\ (args.value = Text(<<"1", "/", "2">>) => ret = [numerator |-> 1, denominator |-> 2])
        /\ (args.value = Text(<<"-", "3", "/", "6">>) =>
               ret = [numerator |-> -1, denominator |-> 2])

\* what C13 says, for every form but the "p/q" strings
EntryFormsButFractionStrings == (pc = "convert" /\ args.form = "fraction string") \/ C13_EntryForms

\* a "p/q" string is converted to p/1: parseFloat reads the digits before the
\* slash and the Fraction constructor is never reached
FractionStringLosesDenominator ==
    (pc = "convert" /\ args.form = "fraction string") =>
        ret = [numerator |-> args.n, denominator |-> 1]

\* C14: Fraction.fromFloat of the legacy engine maps every integer n to n/1 and
\* every non-integer value that equals a rational p/q with a small denominator
\* (0.5, 1.5, -0.25, 2.75) to exactly p/q in lowest terms, using at most 20
\* iterations of the floor/remainder loop.
C14_FromFloatExact ==
    pc = "from_float" =>
        /\ Denotes(ret.out, args.n, args.d)
        /\ InLowestTerms(ret.out)
        /\ ret.iterations <= 20
        /\ (args.form = "integer" => ret.out = [numerator |-> args.n, denominator |-> 1])
        /\ (args.value = Decimal(50, 2) => ret.out = [numerator |-> 1, denominator |-> 2])
        /\ (args.value = Decimal(150, 2) => ret.out = [numerator |-> 3, denominator |-> 2])
        /\ (args.value = Decimal(-25, 2) => ret.out = [numerator |-> -1, denominator |-> 4])
        /\ (args.value = Decimal(275, 2) => ret.out = [numerator |-> 11, denominator |-> 4])

\* what C14 says, for the integers
FromFloatExactOnIntegers == (pc = "from_float" /\ args.form # "integer") \/ C14_FromFloatExact

\* what fromFloat returns for a non-integer: the continued fraction of the
\* reciprocal of the fractional part, the integer part dropped (0.5 and 1.5
\* both give 2/1, -0.25 gives -4/3, 2.75 gives 4/3)
FromFloatReturnsReciprocalOfRemainder ==
    (pc = "from_float" /\ args.form = "decimal") =>
        /\ Denotes(ret.out, IF args.n < 0 THEN -100 ELSE 100, args.n % 100)
        /\ ret.iterations <= 20

(***************************************************************************)
(* Claims about multiplyMatrices (SpecPair)                                *)
(***************************************************************************)
\* a matrix of at least one row and one column
IsOperand(matrix) == Len(matrix) > 0 /\ Len(matrix[1]) > 0

\* sum over t = from..k of A[i][t] * B[t][j], on the integers
RECURSIVE EntrySum(_, _, _, _, _)
EntrySum(A, B, i, j, from) ==
    IF from > Len(B) THEN 0
    ELSE A[i][from] * B[from][j] + EntrySum(A, B, i, j, from + 1)

\* C15: multiplyMatrices returns, for every pair of integer matrices A (r x k)
\* and B (k x c), an object with a result of exactly r rows and c columns whose
\* (i, j) entry denotes the sum over t of A[i][t] * B[t][j], together with a
\* steps list; when the column count of A differs from the row count of B it
\* throws and returns nothing.
C15_MultiplyMatrices ==
    (pc = "product" /\ IsOperand(args.matrix1) /\ IsOperand(args.matrix2)) =>
        IF Len(args.matrix1[1]) = Len(args.matrix2)
        THEN /\ DOMAIN ret = {"result", "steps"}
             /\ Len(ret.steps) > 0
             /\ Len(ret.result) = Len(args.matrix1)
             /\ \A i \in 1..Len(args.matrix1) :
                    /\ Len(ret.result[i]) = Len(args.matrix2[1])
                    /\ \A j \in 1..Len(args.matrix2[1]) :
                           ret.result[i][j] = <<EntrySum(args.matrix1, args.matrix2, i, j, 1)>>
        ELSE DOMAIN ret = {"error"}

\* C15 witness: a 2 x 2 product with a non-zero entry in its second column
C15_Witness ==
    /\ pc = "product"
    /\ Len(args.matrix1) = 2 /\ Len(args.matrix2) = 2
    /\ "result" \in DOMAIN ret
    /\ Len(ret.result[2]) = 2
    /\ ret.result[2][2] # <<0>>
    /\ ret.result[2][2] # ret.result[2][1]


(***************************************************************************)
(* Claims about generateCombinations (SpecCombinations)                    *)
(***************************************************************************)
\* the strictly increasing choices of k positions among 1..n
AscendingChoices(n, k) ==
    {c \in [1..k -> 1..n] : \A i, j \in 1..k : i < j => c[i] < c[j]}

\* the items of arr at the chosen positions, in that order
ItemsAt(arr, choice) == [i \in 1..Len(choice) |-> arr[choice[i]]]

\* C28: generateCombinations(arr, k) on an array of n distinct items returns,
\* for every 0 <= k <= n <= 4, exactly the C(n, k) size-k subsets, each exactly
\* once and each listed in ascending index order, and the empty list for
\* k > n; the backtracking version of the current engine and the
\* include/exclude recursion of the legacy engine return the same list in the
\* same order.
C28_Combinations ==
    pc \in {"combinations", "combinations_old"} =>
        LET n == Len(args.arr)
            choices == AscendingChoices(n, args.k)
        IN  /\ args.k > n => ret.out = <<>>
            /\ Len(ret.out) = Cardinality(choices)
            /\ \A c \in 1..Len(ret.out) :
                  \E choice \in choices : ret.out[c] = ItemsAt(args.arr, choice)
            /\ \A c, d \in 1..Len(ret.out) : c # d => ret.out[c] # ret.out[d]
            /\ ret.out = generateCombinations(args.arr, args.k)
            /\ ret.out = generateCombinationsOld(args.arr, args.k)

\* C28 witness: the six pairs of a four-item array, listed by the legacy
\* recursion
C28_Witness ==
    /\ pc = "combinations_old"
    /\ Len(args.arr) = 4
    /\ args.k = 2
    /\ Len(ret.out) = 6
    /\ ret.out[1] = <<args.arr[1], args.arr[2]>>
    /\ ret.out[6] = <<args.arr[3], args.arr[4]>>


(***************************************************************************)
(* Claims about the calls made on one instance                             *)
(***************************************************************************)
\* the call k is the most recent setFormatType call
IsLastFormatCall(calls, k) ==
    /\ calls[k].op = "setFormatType"
    /\ \A l \in (k + 1)..Len(calls) : calls[l].op # "setFormatType"

\* C21: after any sequence of setFormatType calls the representation is
\* determined by the most recent call alone: after 'rational' or 'fraction'
\* the engine computes with Fractions (useFractions is true), after 'decimal'
\* with floats, and formatType is always one of the documented values.
C21_LastFormatCallDecides ==
    pc = "instance" =>
        /\ formatType \in FormatTypes
        /\ \A k \in 1..Len(args.calls) :
              IsLastFormatCall(args.calls, k) =>
                 /\ args.calls[k].type \in {"rational", "fraction"} => useFractions
                 /\ args.calls[k].type = "decimal" => ~useFractions

\* what C21 says of the calls 'fraction' and 'decimal', and of formatType
LastExplicitFormatCallDecides ==
    pc = "instance" =>
        /\ formatType \in {"integer", "rational"}
        /\ \A k \in 1..Len(args.calls) :
              IsLastFormatCall(args.calls, k) =>
                 /\ args.calls[k].type = "fraction" => useFractions
                 /\ args.calls[k].type = "decimal" => ~useFractions

\* setFormatType('decimal') followed by setFormatType('rational') leaves the
\* engine computing with floats
RationalAfterDecimalKeepsFloats ==
    ~ (/\ pc = "instance"
       /\ Len(args.calls) = 2
       /\ args.calls[1] = [op |-> "setFormatType", type |-> "decimal"]
       /\ args.calls[2] = [op |-> "setFormatType", type |-> "rational"]
       /\ ~useFractions)


\* the call k was calculateDeterminant and returned its steps
DeterminantReturned(k) ==
    /\ args.calls[k].op = "calculateDeterminant"
    /\ "steps" \in DOMAIN ret.returns[k]

\* the integer matrix as the engine converts it in rational mode
AsFractions(matrix) ==
    [i \in 1..Len(matrix) |-> [j \in 1..Len(matrix[i]) |-> FractionOf(matrix[i][j])]]

\* C24: each step of the trace of calculateDeterminant is a snapshot: on
\* return a step's matrix has the contents it had when the step was pushed,
\* whatever row swaps and eliminations came later, and the first step shows
\* the converted input matrix.
C24_StepsAreSnapshots ==
    pc = "instance" =>
        \A k \in 1..Len(ret.returns) :
            DeterminantReturned(k) =>
                /\ \A s \in 1..Len(ret.returns[k].steps) :
                      ret.returns[k].steps[s].matrix = ret.returns[k].steps[s].pushed
                /\ ret.returns[k].steps[1].matrix = AsFractions(args.calls[k].given[1])

\* what C24 says, of every step but the first
LaterStepsAreSnapshots ==
    pc = "instance" =>
        \A k \in 1..Len(ret.returns) :
            DeterminantReturned(k) =>
                /\ \A s \in 2..Len(ret.returns[k].steps) :
                      ret.returns[k].steps[s].matrix = ret.returns[k].steps[s].pushed
                /\ ret.returns[k].steps[1].pushed = AsFractions(args.calls[k].given[1])

\* on return the first step shows the matrix the elimination ended with
FirstStepShowsTheFinalMatrix ==
    pc = "instance" =>
        \A k \in 1..Len(ret.returns) :
            DeterminantReturned(k) =>
                ret.returns[k].steps[1].matrix =
                    DeterminantTrace(AsFractions(args.calls[k].given[1]), 1, <<>>).processedMatrix


(***************************************************************************)
(* Claims about the validation of the arguments                            *)
(***************************************************************************)
\* the errors thrown by the validation at the start of an operation
IsShapeError(x) ==
    /\ "error" \in DOMAIN x
    /\ x.error \in {"empty", "invalid", "not square", "empty matrix", "empty vector",
                    "length mismatch"}

\* n rows of n entries each
IsSquareArray(matrix) == \A i \in 1..Len(matrix) : Len(matrix[i]) = Len(matrix)

\* C25: calculateDeterminant and calculateInverse reject with a shape error
\* every array of rows that is not a square matrix, rows of unequal length
\* included, and solveEquations rejects rows of unequal length and a constant
\* vector whose length differs from the number of rows.
C25_ShapeErrors ==
    /\ pc \in {"shape_determinant", "shape_inverse"} =>
          (~IsSquareArray(args.matrix) => IsShapeError(ret))
    /\ pc = "shape_solve" =>
          (~IsRectangular(args.matrix) \/ Len(args.vector) # Len(args.matrix)
              => IsShapeError(ret))

\* what the validation does reject: a first row whose length differs from
\* the number of rows, and a constant vector of another length
FirstRowShapeErrors ==
    /\ pc \in {"shape_determinant", "shape_inverse"} =>
          (IsShapeError(ret) <=> Len(args.matrix[1]) # Len(args.matrix))
    /\ pc = "shape_solve" =>
          (IsShapeError(ret) <=> Len(args.vector) # Len(args.matrix))

\* a longer second row is ignored beyond the length of the first
LongerRowIsAccepted ==
    ~ (/\ pc = "shape_determinant"
       /\ args.matrix = <<<<1, 2>>, <<0, 1, 2>>>>
       /\ Returned(ret))


(***************************************************************************)
(* Claims about reduceToRowEchelon (SpecEchelon)                           *)
(***************************************************************************)
\* the column of the first non-zero entry of a row of Fractions, 0 for a
\* zero row
LeadingColumn(row) ==
    IF \A j \in 1..Len(row) : row[j].numerator = 0 THEN 0
    ELSE CHOOSE j \in 1..Len(row) :
            /\ row[j].numerator # 0
            /\ \A l \in 1..(j - 1) : row[l].numerator = 0

\* a row of Fractions multiplied by the product of its denominators: an
\* integer row with the same span
ClearedRow(row) ==
    LET L == ProductTo([j \in 1..Len(row) |-> row[j].denominator], Len(row))
    IN  [j \in 1..Len(row) |-> row[j].numerator * (L \div row[j].denominator)]

\* the rows of R span what the rows of the integer matrix A span
SameRowSpace(A, R) ==
    LET cleared == [i \in 1..Len(R) |-> ClearedRow(R[i])]
    IN  /\ Rank(cleared) = Rank(A)
        /\ Rank(A \o cleared) = Rank(A)

\* reduced row-echelon form of a matrix of Fractions
IsReducedRowEchelon(R) ==
    /\ \A i \in 1..Len(R) : \A j \in 1..Len(R[i]) : InLowestTerms(R[i][j])
    /\ \A i \in 1..Len(R) :
          LeadingColumn(R[i]) # 0 =>
             /\ Denotes(R[i][LeadingColumn(R[i])], 1, 1)
             /\ \A k \in 1..Len(R) : k # i => R[k][LeadingColumn(R[i])].numerator = 0
    /\ \A i \in 1..(Len(R) - 1) :
          \/ LeadingColumn(R[i + 1]) = 0
          \/ (LeadingColumn(R[i]) # 0 /\ LeadingColumn(R[i]) < LeadingColumn(R[i + 1]))

\* C27: for every m x n integer matrix (m, n <= 3, all-zero, rank-deficient
\* and wide matrices included) the result of reduceToRowEchelon is in reduced
\* row-echelon form: the first non-zero entry of each non-zero row is 1 and
\* is the only non-zero entry of its column, the pivot columns strictly
\* increase from top to bottom, the zero rows are below the others, and the
\* result has the row space of the input.
C27_ReducedRowEchelon ==
    pc = "rref" =>
        /\ Len(ret.rref) = Len(args.matrix)
        /\ \A i \in 1..Len(ret.rref) : Len(ret.rref[i]) = Len(args.matrix[i])
        /\ IsReducedRowEchelon(ret.rref)
        /\ SameRowSpace(args.matrix, ret.rref)

\* a wide matrix of rank 1 whose first column is zero: the pivot is found in
\* the second column, the row above it is cleared and the zero rows end below
C27_Witness ==
    /\ pc = "rref"
    /\ args.matrix = <<<<0, 1, -1>>, <<0, -1, 1>>, <<0, 1, -1>>>>
    /\ LeadingColumn(ret.rref[1]) = 2
    /\ LeadingColumn(ret.rref[2]) = 0
    /\ LeadingColumn(ret.rref[3]) = 0


(***************************************************************************)
(* Claims about the current analyzeVectors (SpecAnalyze)                   *)
(***************************************************************************)
\* the formatted vector reads, entry by entry, as the integer vector v
TextsAre(texts, v) ==
    /\ Len(texts) = Len(v)
    /\ \A k \in 1..Len(v) : TextIs(texts[k], v[k])

\* the formatted vectors are the input vectors at the positions `at`, taken
\* in ascending order
IsSubfamily(basis, vectors, at) ==
    /\ Len(basis) = Cardinality(at)
    /\ \A k \in 1..Len(basis) : TextsAre(basis[k], vectors[Ascending(at)[k]])

\* C26: for every family of up to 3 integer vectors of a common dimension
\* <= 3, analyzeVectors returns the maximum number of linearly independent
\* input vectors as rank, isLinearlyIndependent = true exactly when the rank
\* is the number of vectors, and a basis of exactly `rank` of the input
\* vectors that is itself linearly independent.
C26_AnalyzeVectors ==
    pc = "analyze" =>
        /\ Returned(ret)
        /\ ret.rank = Rank(args.vectors)
        /\ ret.isLinearlyIndependent <=> (ret.rank = Len(args.vectors))
        /\ Len(ret.basis) = ret.rank
        /\ \E at \in SUBSET (1..Len(args.vectors)) :
              /\ IsSubfamily(ret.basis, args.vectors, at)
              /\ at = {} \/ Independent(SubMatrix(args.vectors, at, 1..Len(args.vectors[1])))

\* three vectors of the plane of which the first is zero and the other two
\* are independent: the basis is the second and the third
C26_Witness ==
    /\ pc = "analyze"
    /\ args.vectors = <<<<0, 0>>, <<1, 1>>, <<1, -1>>>>
    /\ ret.rank = 2
    /\ ~ret.isLinearlyIndependent
    /\ TextsAre(ret.basis[1], <<1, 1>>)
    /\ TextsAre(ret.basis[2], <<1, -1>>)


(***************************************************************************)
(* Claims about the legacy solveEquations (SpecSystemOld)                  *)
(***************************************************************************)
UniqueOld(x) == Returned(x) /\ x.type = "unique-solution"

\* the number x, which has at most decimalPlaces places, in units of
\* 10^-decimalPlaces
InUnits(x) == x.dividend * (10^decimalPlaces \div x.divisor)

\* the numbers x, each rounded to decimalPlaces places, satisfy the equation
\* row . x = b up to that rounding
NearlySolves(row, x, b) ==
    2 * JsAbs(SumTo([j \in 1..Len(row) |-> row[j] * InUnits(x[j])], Len(row))
              - b * 10^decimalPlaces)
        <= SumTo([j \in 1..Len(row) |-> JsAbs(row[j])], Len(row))

\* the solution has n entries, all of them numbers, and solves the system
IsSolutionOld(solution, A, b) ==
    /\ Len(solution) = Len(A[1])
    /\ \A j \in 1..Len(solution) : solution[j].dividend # NaN
    /\ \A i \in 1..Len(A) : NearlySolves(A[i], solution, b[i])

\* C29: whenever the legacy solveEquations classifies an m x n integer
\* system as 'unique-solution', overdetermined systems (m > n) included, the
\* solution has exactly n entries, every entry is a finite number, and the
\* solution satisfies A.x = b.
C29_LegacyUniqueSolution ==
    (pc = "solve_old" /\ UniqueOld(ret)) =>
        IsSolutionOld(ret.solution, args.matrix, args.vector)

\* what C29 says, of the systems with as many equations as unknowns
LegacyUniqueSolutionOfSquareSystems ==
    (pc = "solve_old" /\ UniqueOld(ret) /\ Len(args.matrix) = Len(args.matrix[1])) =>
        IsSolutionOld(ret.solution, args.matrix, args.vector)

\* 'unique-solution' is returned exactly for the systems that have one
\* solution
LegacyClassifiesUniqueSystems ==
    (pc = "solve_old" /\ Returned(ret)) =>
        (ret.type = "unique-solution"
            <=> (Consistent(args.matrix, args.vector)
                    /\ Rank(args.matrix) = Len(args.matrix[1])))

\* the solution of an overdetermined system has one entry for each equation
\* and every entry is NaN
LegacyOverdeterminedSolutionIsNaN ==
    (pc = "solve_old" /\ UniqueOld(ret) /\ Len(args.matrix) > Len(args.matrix[1])) =>
        /\ Len(ret.solution) = Len(args.matrix)
        /\ \A j \in 1..Len(ret.solution) : ret.solution[j].dividend = NaN



\* a call of an algorithm, not of setFormatType
IsAlgorithmCall(k) == args.calls[k].op # "setFormatType"

\* what the arguments of the call k held when it was made
HeldBefore(k) ==
    [a \in 1..Len(args.calls[k].given) |-> Held(args.calls[k].given[a])]

SameModeBetween(i, j) ==
    \A k \in (i + 1)..(j - 1) : IsAlgorithmCall(k)

\* the number of steps of a trace with the description
StepsDescribed(steps, description) ==
    Cardinality({s \in 1..Len(steps) : steps[s].description = description})

\* the trace of the call starts with the input of the call and holds it once
OwnTrace(steps, first) ==
    /\ Len(steps) > 0
    /\ steps[1].description = first
    /\ StepsDescribed(steps, first) = 1

====
